---- MODULE Spec2Model ----
(***************************************************************************)
(* A model of the Quantum Code Analyzer (quantum_analyzer.py) and of its   *)
(* format-call fixer (quantum_analyzer/fix/format_to_fstring.py).          *)
(*                                                                         *)
(* Text is modelled as sequences of one-character strings.  A regular      *)
(* expression is modelled by a literal: search() is substring search.      *)
(* An Optional value is a sequence of length 0 (None) or 1.                *)
(***************************************************************************)
EXTENDS Integers, Sequences, FiniteSets, TLC

VARIABLES
  patterns,        \* CodeAnalyzer.patterns
  min_severity,    \* CodeAnalyzer.min_severity
  selected_tags,   \* CodeAnalyzer.selected_tags (None or a set)
  line,            \* the argument of the last analyze_line call
  line_results,    \* what that call returned (None before the first call)
  match_lists,     \* the list objects that are the ideas and tags of each match
  mutated,         \* the lists of the returned matches the caller appended to
  store,           \* AnalysisResults.results of a store used directly
  files,           \* the files get_python_files returns, in its order
  pc,              \* where the driver of the two scans is
  seq_i,           \* sequential scan: index of the next file of the loop
  seq_results,     \* sequential ProjectAnalyzer.results.results
  par_status,      \* parallel scan: state of each future
  par_out,         \* parallel scan: what each finished worker returned
  par_next,        \* parallel scan: index of the next future map() yields
  par_results,     \* parallel ProjectAnalyzer.results.results
  par_finished,    \* parallel scan: the futures in the order they finished
  par_writers,     \* parallel scan: the threads inside add_file_results
  source,          \* the source_code argument of the last apply call
  result,          \* what that call returned (None before the first call)
  changes,         \* FormatToFString.changes
  caught,          \* the exception the last apply call caught (None if none)
  applied,         \* how many apply calls the fixer has served
  nested_quotes_ok, \* whether the parser accepts a quote of the enclosing
                   \* f-string inside its expressions (PEP 701 grammar)
  fix_files,       \* the files main hands to apply_fixes, with their content
  fix_patterns,    \* config.fix_patterns, the fixers argument of apply_fixes
  fix_i,           \* index of the next file of the loop of main
  total_fixes,     \* total_fixes of main
  fix_log,         \* what each apply_fixes call of the loop did
  documents,       \* the rule documents handed to PatternLoader.load_multiple
  loaded,          \* what load_multiple returned (None before the call)
  entry_point,     \* the entry point that runs: "cli" or "script"
  threads,         \* config.threads (0 means auto)
  parallel,        \* whether the scan is asked to run in parallel
  cpu_count,       \* os.cpu_count() of the host
  pool_files,      \* how many Python files the project holds
  cli_pc,          \* where the entry point is
  max_workers,     \* size of the executor of analyze() (None before it exists)
  pool_queued,     \* files submitted to the executor and not started
  pool_running,    \* files a worker thread is analyzing
  pool_done,       \* files whose analysis has returned
  exit_code,       \* what the entry point returned (None while it runs)
  scans,           \* how many analyze() calls of one ProjectAnalyzer returned
  command_line,    \* the options given on the command line, with their values
  file_config,     \* the AnalyzerConfig load_config returned
  merged_config    \* what merge_with_args returned (None before the call)

analyzerVars == <<patterns, min_severity, selected_tags>>
lineVars == <<line, line_results, match_lists, mutated>>
scanVars == <<files, pc, seq_i, seq_results, par_status, par_out, par_next,
              par_results, par_finished, par_writers>>
fixVars == <<source, result, changes, caught, applied, nested_quotes_ok>>
fixesVars == <<fix_files, fix_patterns, fix_i, total_fixes, fix_log>>
loadVars == <<documents, loaded>>
cliVars == <<entry_point, threads, parallel, cpu_count, pool_files, cli_pc, max_workers,
             pool_queued, pool_running, pool_done, exit_code>>
rescanVars == <<scans>>
mergeVars == <<command_line, file_config, merged_config>>
toolVars == <<fixesVars, loadVars, cliVars, rescanVars, mergeVars>>
vars == <<analyzerVars, lineVars, store, scanVars, fixVars, toolVars>>

None == <<>>
Some(x) == <<x>>

\* The variables of the project scan, while no scan is modelled.
ScanIdle ==
  /\ files = <<>>
  /\ pc = "idle"
  /\ seq_i = 1
  /\ seq_results = <<>>
  /\ par_status = <<>>
  /\ par_out = <<>>
  /\ par_next = 1
  /\ par_results = <<>>
  /\ par_finished = <<>>
  /\ par_writers = {}

\* The variables of the fixer, while no fixer is modelled.
FixIdle ==
  /\ source = <<>>
  /\ result = None
  /\ changes = 0
  /\ caught = None
  /\ applied = 0
  /\ nested_quotes_ok = FALSE

\* The variables of the fix loop of main, while no fix loop is modelled.
FixesIdle ==
  /\ fix_files = <<>>
  /\ fix_patterns = <<>>
  /\ fix_i = 1
  /\ total_fixes = 0
  /\ fix_log = <<>>

\* The variables of the pattern loader, while no loader is modelled.
LoadIdle ==
  /\ documents = <<>>
  /\ loaded = None

\* The variables of the entry points, while no entry point is modelled.
CliIdle ==
  /\ entry_point = "script"
  /\ threads = 0
  /\ parallel = TRUE
  /\ cpu_count = 1
  /\ pool_files = 0
  /\ cli_pc = "start"
  /\ max_workers = None
  /\ pool_queued = 0
  /\ pool_running = 0
  /\ pool_done = 0
  /\ exit_code = None

\* The other variables, while one analyze() call and no merge are modelled.
RescanIdle == scans = 0

MergeIdle ==
  /\ command_line = <<>>
  /\ file_config = <<>>
  /\ merged_config = None

ToolIdle == FixesIdle /\ LoadIdle /\ CliIdle /\ RescanIdle /\ MergeIdle

(***************************************************************************)
(* Bounds of the model.                                                    *)
(***************************************************************************)
MaxPatterns == 2
MaxLineLen == 3

(***************************************************************************)
(* Sequence helpers.                                                       *)
(***************************************************************************)
Range(s) == {s[i] : i \in 1..Len(s)}

SeqsUpTo(S, n) == UNION {[1..k -> S] : k \in 0..n}

InjectiveSeqsUpTo(S, n) ==
  {s \in SeqsUpTo(S, n) : \A i, j \in 1..Len(s) : i # j => s[i] # s[j]}

\* s[from..] with Python's 0-based slice s[from:]
Slice(s, from, to) == SubSeq(s, from + 1, to)

StartsWith(s, prefix) ==
  /\ Len(prefix) <= Len(s)
  /\ SubSeq(s, 1, Len(prefix)) = prefix

\* re.search of a literal: the literal occurs somewhere in s
Search(literal, s) ==
  \E i \in 0..(Len(s) - Len(literal)) : SubSeq(s, i + 1, i + Len(literal)) = literal

Whitespace == {" "}

RECURSIVE lstrip(_)
lstrip(s) ==
  IF s # <<>> /\ Head(s) \in Whitespace THEN lstrip(Tail(s)) ELSE s

RECURSIVE rstrip(_)
rstrip(s) ==
  IF s # <<>> /\ s[Len(s)] \in Whitespace THEN rstrip(SubSeq(s, 1, Len(s) - 1)) ELSE s

\* str.strip()
strip(s) == rstrip(lstrip(s))

(***************************************************************************)
(* Severity, ImprovementPattern, CodeLine.                                 *)
(***************************************************************************)
Severity == {"info", "warning", "critical"}

ImprovementPattern(regex, ideas, severity, tags) ==
  [regex |-> regex, ideas |-> ideas, severity |-> severity, tags |-> tags]

\* ImprovementPattern.matches: compiled_regex.search(line)
matches(pattern, l) == Search(pattern.regex, l)

CodeLine(l, ideas, severity, tags) ==
  [line |-> l, ideas |-> ideas, severity |-> severity, tags |-> tags]

\* The patterns of the test suite, and one without tags.
PatternPool ==
  { ImprovementPattern(<<"d">>, <<"Add type hints", "Add docstrings">>, "info", <<"function">>),
    ImprovementPattern(<<"r">>, <<"Validate return values">>, "warning", <<"return">>),
    ImprovementPattern(<<"d", "r">>, <<"Use a safer RNG">>, "critical", <<"import">>),
    ImprovementPattern(<<"r">>, <<"Check the value">>, "info", <<>>) }

PatternLists == InjectiveSeqsUpTo(PatternPool, MaxPatterns)

\* The selected_tags argument of the constructor: None, or a list.
TagArgs == {None, Some(<<>>), Some(<<"return">>), Some(<<"function", "import">>)}

LineAlphabet == {"d", "r", " ", "#"}
Lines == SeqsUpTo(LineAlphabet, MaxLineLen)

(***************************************************************************)
(* CodeAnalyzer.                                                           *)
(***************************************************************************)
\* set(selected_tags) if selected_tags else None
CodeAnalyzerSelectedTags(arg) ==
  IF arg # None /\ arg[1] # <<>> THEN Some(Range(arg[1])) ELSE None

severity_values == [s \in Severity |->
  CASE s = "info" -> 0 [] s = "warning" -> 1 [] s = "critical" -> 2]

should_include_pattern_no_severity(pattern, min_sev, sel_tags) ==
  ~(sel_tags # None /\ sel_tags[1] # {} /\ Range(pattern.tags) \cap sel_tags[1] = {})

should_include_pattern_untagged_pass(pattern, min_sev, sel_tags) ==
  IF severity_values[pattern.severity] < severity_values[min_sev]
  THEN FALSE
  ELSE IF sel_tags # None /\ sel_tags[1] # {} /\ pattern.tags # <<>>
          /\ Range(pattern.tags) \cap sel_tags[1] = {}
       THEN FALSE
       ELSE TRUE

\* CodeAnalyzer._should_include_pattern
should_include_pattern(pattern, min_sev, sel_tags) ==
  IF severity_values[pattern.severity] < severity_values[min_sev]
  THEN FALSE
  ELSE IF sel_tags # None /\ sel_tags[1] # {}
          /\ Range(pattern.tags) \cap sel_tags[1] = {}
       THEN FALSE
       ELSE TRUE

\* The loop of analyze_line over self.patterns[i..], on the stripped line.
RECURSIVE analyze_line_loop(_, _, _, _, _)
analyze_line_loop(pats, i, min_sev, sel_tags, l) ==
  IF i > Len(pats) THEN <<>>
  ELSE LET pattern == pats[i]
           rest == analyze_line_loop(pats, i + 1, min_sev, sel_tags, l)
       IN IF ~should_include_pattern(pattern, min_sev, sel_tags) THEN rest
          ELSE IF matches(pattern, l)
               THEN <<CodeLine(l, pattern.ideas, pattern.severity, pattern.tags)>> \o rest
               ELSE rest

\* A list object: the ideas or the tags of the pattern at index i of
\* self.patterns.
ListOf(i, field) == <<"pattern", i, field>>

\* The variant in which the match is given the list of the pattern itself.
copy_same_list(list) == list

\* list.copy(): a new list object
copy(list) == <<"copy", list>>

\* The list objects analyze_line gives to the matches it returns, match by
\* match: the loop over self.patterns[i..].
RECURSIVE analyze_line_loop_lists(_, _, _, _, _)
analyze_line_loop_lists(pats, i, min_sev, sel_tags, l) ==
  IF i > Len(pats) THEN <<>>
  ELSE LET pattern == pats[i]
           rest == analyze_line_loop_lists(pats, i + 1, min_sev, sel_tags, l)
       IN IF ~should_include_pattern(pattern, min_sev, sel_tags) THEN rest
          ELSE IF matches(pattern, l)
               THEN <<[ideas |-> copy(ListOf(i, "ideas")),
                       tags |-> copy(ListOf(i, "tags"))]>> \o rest
               ELSE rest

analyze_line_lists(pats, min_sev, sel_tags, raw) ==
  LET l == strip(raw)
  IN IF l = <<>> \/ StartsWith(l, <<"#">>) THEN <<>>
     ELSE analyze_line_loop_lists(pats, 1, min_sev, sel_tags, l)

\* The variant without the test of line 175.
analyze_line_no_skip(pats, min_sev, sel_tags, raw) ==
  analyze_line_loop(pats, 1, min_sev, sel_tags, strip(raw))

\* CodeAnalyzer.analyze_line
analyze_line(pats, min_sev, sel_tags, raw) ==
  LET l == strip(raw)
  IN IF l = <<>> \/ StartsWith(l, <<"#">>) THEN <<>>
     ELSE analyze_line_loop(pats, 1, min_sev, sel_tags, l)

(***************************************************************************)
(* Ordered dictionaries (a Python dict keeps insertion order): a sequence   *)
(* of <<key, value>> pairs with distinct keys.                             *)
(***************************************************************************)
DictKeys(d) == {d[i][1] : i \in 1..Len(d)}

DictGet(d, k) == d[CHOOSE i \in 1..Len(d) : d[i][1] = k][2]

\* d[k] = v: a present key keeps its place, a new key goes last
DictSet(d, k, v) ==
  IF k \in DictKeys(d)
  THEN [i \in 1..Len(d) |-> IF d[i][1] = k THEN <<k, v>> ELSE d[i]]
  ELSE Append(d, <<k, v>>)

(***************************************************************************)
(* CodeAnalyzer.analyze_file.                                              *)
(***************************************************************************)
take_last_match(results) == results[Len(results)]

\* analyze_file line 212: results[line_num] = line_results[0]
take_match(results) == results[1]

\* The loop of analyze_file over enumerate(lines, 1), from line_num on.
RECURSIVE analyze_file_loop(_, _, _, _, _, _)
analyze_file_loop(pats, min_sev, sel_tags, lines, line_num, results) ==
  IF line_num > Len(lines) THEN results
  ELSE LET found == analyze_line(pats, min_sev, sel_tags, lines[line_num])
           next == IF found # <<>>
                   THEN DictSet(results, line_num, take_match(found))
                   ELSE results
       IN analyze_file_loop(pats, min_sev, sel_tags, lines, line_num + 1, next)

analyze_file_uncaught(pats, min_sev, sel_tags, file) ==
  IF file.error # "none"
  THEN [results |-> <<>>, raised |-> TRUE]
  ELSE [results |-> analyze_file_loop(pats, min_sev, sel_tags, file.lines, 1, <<>>),
        raised |-> FALSE]

\* CodeAnalyzer.analyze_file.  open() or readlines() raises for a file that
\* cannot be read or decoded, before any line is analyzed; the handler keeps
\* the exception from leaving the method (raised is FALSE in both cases).
analyze_file(pats, min_sev, sel_tags, file) ==
  IF file.error # "none"
  THEN [results |-> <<>>, raised |-> FALSE]
  ELSE [results |-> analyze_file_loop(pats, min_sev, sel_tags, file.lines, 1, <<>>),
        raised |-> FALSE]

(***************************************************************************)
(* AnalysisResults.                                                        *)
(***************************************************************************)
\* The dictionary add_file_results stores for a CodeLine.
Entry(code_line) ==
  [line |-> code_line.line, ideas |-> code_line.ideas,
   severity |-> code_line.severity, tags |-> code_line.tags]

\* The loop of add_file_results over file_results.items(), from item i on;
\* self.results is a defaultdict(dict).
RECURSIVE add_file_results_loop(_, _, _, _)
add_file_results_loop(results, str_path, file_results, i) ==
  IF i > Len(file_results) THEN results
  ELSE LET line_num == file_results[i][1]
           code_line == file_results[i][2]
           of_path == IF str_path \in DictKeys(results)
                      THEN DictGet(results, str_path) ELSE <<>>
           next == DictSet(results, str_path,
                           DictSet(of_path, line_num, Entry(code_line)))
       IN add_file_results_loop(next, str_path, file_results, i + 1)

\* The variant that reads self.results[str_path] before it looks at
\* file_results: reading a key of a defaultdict creates it.
add_file_results_key_first(results, str_path, file_results) ==
  IF file_results = <<>>
  THEN IF str_path \in DictKeys(results) THEN results
       ELSE DictSet(results, str_path, <<>>)
  ELSE add_file_results_loop(results, str_path, file_results, 1)

\* AnalysisResults.add_file_results
add_file_results(results, str_path, file_results) ==
  IF file_results = <<>> THEN results
  ELSE add_file_results_loop(results, str_path, file_results, 1)

\* AnalysisResults.save_json: json.dump(self.to_dict(), f, indent=2).  The
\* keys of a JSON object are strings: a line number is written as its decimal
\* text; the members keep the order of the dictionaries.
save_json(results) ==
  [i \in 1..Len(results) |->
    <<results[i][1],
      [j \in 1..Len(results[i][2]) |->
        <<ToString(results[i][2][j][1]), results[i][2][j][2]>>]>>]

(***************************************************************************)
(* StoreSpec: add_file_results is called on one AnalysisResults with       *)
(* arbitrary file results.                                                 *)
(***************************************************************************)
MaxLineNum == 2

StorePaths == {"a.py", "b.py"}

StoreMatches ==
  { CodeLine(<<"d">>, <<"Add type hints", "Add docstrings">>, "info", <<"function">>),
    CodeLine(<<"d">>, <<"Use a safer RNG">>, "critical", <<"import">>) }

\* File results as analyze_file builds them: line numbers ascending.
RECURSIVE FileResultsUpTo(_)
FileResultsUpTo(n) ==
  IF n = 0 THEN {<<>>}
  ELSE LET before == FileResultsUpTo(n - 1)
       IN before \cup {Append(fr, <<n, m>>) : fr \in before, m \in StoreMatches}

StoreInit ==
  /\ patterns = <<>>
  /\ min_severity = "info"
  /\ selected_tags = None
  /\ line = <<>>
  /\ line_results = None
  /\ match_lists = <<>>
  /\ mutated = {}
  /\ store = <<>>
  /\ ScanIdle
  /\ FixIdle
  /\ ToolIdle

AddFileResults(path, file_results) ==
  /\ store' = add_file_results(store, path, file_results)
  /\ UNCHANGED <<fixVars, toolVars, analyzerVars, lineVars, scanVars>>

StoreNext ==
  \E path \in StorePaths, file_results \in FileResultsUpTo(MaxLineNum) :
    AddFileResults(path, file_results)

StoreSpec == StoreInit /\ [][StoreNext]_vars

\* C3: the entry stored for a (path, line) is the one supplied by the first
\* call that set it: a later add_file_results for that (path, line) leaves
\* it as it was.
C3_FirstMatchKept ==
  [][\A path \in DictKeys(store) :
       \A line_num \in DictKeys(DictGet(store, path)) :
         /\ path \in DictKeys(store')
         /\ line_num \in DictKeys(DictGet(store', path))
         /\ DictGet(DictGet(store', path), line_num)
              = DictGet(DictGet(store, path), line_num)]_vars

(***************************************************************************)
(* ProjectAnalyzer.                                                        *)
(***************************************************************************)
MaxFiles == 2
MaxWorkers == 2

ProjectPath == <<"proj">>

FileNames == <<"a.py", "b.py", "c.py", "d.py">>

\* What a scanned file holds: its lines, or the error reading it raises.
FileContents ==
  { [error |-> "none", lines |-> << <<"d", "r">>, <<"#", "d">>, <<" ", "r">> >>],
    [error |-> "none", lines |-> << <<"d">> >>],
    [error |-> "none", lines |-> << <<" ">>, <<"#", "r">> >>],
    [error |-> "none", lines |-> << <<"r", " ">>, <<"d", "r">> >>],
    [error |-> "PermissionError", lines |-> <<>>],
    [error |-> "UnicodeDecodeError", lines |-> <<>>] }

File(name, content) ==
  [path |-> ProjectPath \o <<name>>, error |-> content.error, lines |-> content.lines]

\* The file sets a project can hold: get_python_files returns them in the
\* order of the directory walk, the same in every call on a fixed file set.
FileSets ==
  UNION {{[i \in 1..n |-> File(FileNames[i], c[i])] : c \in [1..n -> FileContents]}
         : n \in 1..MaxFiles}

\* Path.relative_to
relative_to(path, root) == SubSeq(path, Len(root) + 1, Len(path))

\* str(path): the parts joined by "/"; a Python string is modelled by the
\* sequence of the parts and the separators between them.
RECURSIVE str(_)
str(path) ==
  IF Len(path) <= 1 THEN path
  ELSE <<Head(path), "/">> \o str(Tail(path))

\* ProjectAnalyzer.analyze_file_worker
analyze_file_worker(pats, min_sev, sel_tags, file) ==
  LET relative_path == relative_to(file.path, ProjectPath)
      analyzed == analyze_file(pats, min_sev, sel_tags, file)
  IN [relative_path |-> relative_path, file_results |-> analyzed.results,
      raised |-> analyzed.raised]

map_yields_as_completed(i) == par_status[i] = "done"

\* The variant in which the iterator yields a result it has yielded before.
map_yields_again(i) == i <= par_next /\ par_status[i] \in {"done", "merged"}

\* executor.map yields the results in the order of submission: the next one
\* is that of future par_next, once it is done.
map_yields(i) == i = par_next /\ par_status[i] = "done"

\* The patterns of the scans, in the two orders.
ScanPatternLists ==
  LET p == CHOOSE q \in [1..Cardinality(PatternPool) -> PatternPool] :
             /\ \A i, j \in 1..Cardinality(PatternPool) : i # j => q[i] # q[j]
             /\ q[1].severity = "info" /\ q[1].tags # <<>>
             /\ q[2].severity = "warning"
             /\ q[3].severity = "critical"
  IN {p, [i \in 1..Len(p) |-> p[Len(p) + 1 - i]]}

ScanTagArgs == {None, Some(<<"return", "function">>)}

\* Two ProjectAnalyzer objects are built on the same project, patterns and
\* filters: one with parallel=False, one with parallel=True.  analyze() is
\* called on the first, then on the second.
Init ==
  /\ patterns \in ScanPatternLists
  /\ min_severity \in Severity
  /\ \E arg \in ScanTagArgs : selected_tags = CodeAnalyzerSelectedTags(arg)
  /\ line = <<>>
  /\ line_results = None
  /\ match_lists = <<>>
  /\ mutated = {}
  /\ store = <<>>
  /\ files \in FileSets
  /\ pc = "seq"
  /\ seq_i = 1
  /\ seq_results = <<>>
  /\ par_status = <<>>
  /\ par_out = <<>>
  /\ par_next = 1
  /\ par_results = <<>>
  /\ par_finished = <<>>
  /\ par_writers = {}
  /\ FixIdle
  /\ ToolIdle

\* One iteration of the sequential loop of analyze().
SeqStep ==
  /\ pc = "seq"
  /\ seq_i <= Len(files)
  /\ LET file_path == files[seq_i].path
         relative_path == relative_to(file_path, ProjectPath)
         analyzed == analyze_file(patterns, min_severity, selected_tags, files[seq_i])
     IN IF analyzed.raised
        THEN /\ pc' = "aborted"
             /\ UNCHANGED <<seq_i, seq_results>>
        ELSE /\ seq_results' = add_file_results(seq_results, str(relative_path),
                                                analyzed.results)
             /\ seq_i' = seq_i + 1
             /\ pc' = pc
  /\ UNCHANGED <<fixVars, toolVars, analyzerVars, lineVars, store, files, par_status, par_out,
                 par_next, par_results, par_finished, par_writers>>

\* The sequential analyze() returns; the parallel one enters its with block
\* and executor.map submits every file.
SeqReturn ==
  /\ pc = "seq"
  /\ seq_i > Len(files)
  /\ pc' = "par"
  /\ par_status' = [i \in 1..Len(files) |-> "queued"]
  /\ par_out' = [i \in 1..Len(files) |-> None]
  /\ UNCHANGED <<fixVars, toolVars, analyzerVars, lineVars, store, files, seq_i, seq_results,
                 par_next, par_results, par_finished, par_writers>>

\* A free worker thread takes the oldest queued work item.
WorkerStart(i) ==
  /\ pc = "par"
  /\ par_status[i] = "queued"
  /\ \A j \in 1..(i - 1) : par_status[j] # "queued"
  /\ Cardinality({j \in 1..Len(files) : par_status[j] = "running"}) < MaxWorkers
  /\ par_status' = [par_status EXCEPT ![i] = "running"]
  /\ UNCHANGED <<fixVars, toolVars, analyzerVars, lineVars, store, files, pc, seq_i, seq_results,
                 par_out, par_next, par_results, par_finished, par_writers>>

\* A worker thread returns from analyze_file_worker.
WorkerFinish(i) ==
  /\ pc = "par"
  /\ par_status[i] = "running"
  /\ par_status' = [par_status EXCEPT ![i] = "done"]
  /\ par_out' = [par_out EXCEPT ![i] =
       Some(analyze_file_worker(patterns, min_severity, selected_tags, files[i]))]
  /\ par_finished' = Append(par_finished, i)
  /\ UNCHANGED <<fixVars, toolVars, analyzerVars, lineVars, store, files, pc, seq_i, seq_results,
                 par_next, par_results, par_writers>>

\* The thread that calls analyze() and the worker thread of future i.
MainThread == <<"main", 0>>
WorkerThread(i) == <<"worker", i>>

\* The variant in which the worker of a future merges its own result.
merging_thread_worker(i) == WorkerThread(i)

\* The thread that runs the body of the for loop of analyze() for result i:
\* the loop is in analyze() itself.
merging_thread(i) == MainThread

\* The main thread takes the next result of executor.map and calls
\* add_file_results with it; an exception of the worker is raised here.
MainMerge(i) ==
  /\ pc = "par"
  /\ i \in 1..Len(files)
  /\ map_yields(i)
  /\ merging_thread(i) \notin par_writers
  /\ IF par_out[i][1].raised
     THEN /\ pc' = "aborted"
          /\ UNCHANGED <<par_status, par_writers>>
     ELSE /\ par_status' = [par_status EXCEPT ![i] = "merging"]
          /\ par_writers' = par_writers \cup {merging_thread(i)}
          /\ pc' = pc
  /\ UNCHANGED <<fixVars, toolVars, analyzerVars, lineVars, store, files, seq_i, seq_results,
                 par_out, par_next, par_results, par_finished>>

\* add_file_results returns: the result of future i is in the store.
MergeReturn(i) ==
  /\ pc = "par"
  /\ par_status[i] = "merging"
  /\ par_results' = add_file_results(par_results, str(par_out[i][1].relative_path),
                                     par_out[i][1].file_results)
  /\ par_status' = [par_status EXCEPT ![i] = "merged"]
  /\ par_next' = par_next + 1
  /\ par_writers' = par_writers \ {merging_thread(i)}
  /\ UNCHANGED <<fixVars, toolVars, analyzerVars, lineVars, store, files, pc, seq_i, seq_results,
                 par_out, par_finished>>

\* Every result is merged: the executor shuts down and analyze() returns.
ParReturn ==
  /\ pc = "par"
  /\ \A i \in 1..Len(files) : par_status[i] = "merged"
  /\ pc' = "done"
  /\ UNCHANGED <<fixVars, toolVars, analyzerVars, lineVars, store, files, seq_i, seq_results,
                 par_status, par_out, par_next, par_results, par_finished, par_writers>>

Next ==
  \/ SeqStep
  \/ SeqReturn
  \/ \E i \in 1..Len(files) : WorkerStart(i)
  \/ \E i \in 1..Len(files) : WorkerFinish(i)
  \/ \E i \in 1..Len(files) : MainMerge(i)
  \/ \E i \in 1..Len(files) : MergeReturn(i)
  \/ ParReturn

Spec == Init /\ [][Next]_vars

\* The patterns, by index, that pass the filters and match the raw line.
EligibleMatching(raw) ==
  {j \in 1..Len(patterns) :
     /\ should_include_pattern(patterns[j], min_severity, selected_tags)
     /\ matches(patterns[j], strip(raw))}

Skipped(raw) == strip(raw) = <<>> \/ Head(strip(raw)) = "#"

\* The store entries of a readable file scanned on its own.
OwnEntries(file) ==
  LET fr == analyze_file_loop(patterns, min_severity, selected_tags, file.lines, 1, <<>>)
  IN [j \in 1..Len(fr) |-> <<fr[j][1], Entry(fr[j][2])>>]

\* C4: on a fixed file set and fixed patterns, the sequential and the
\* parallel analyze() leave the same store content in the same insertion
\* order, so that save_json writes the same bytes, whatever order the worker
\* threads finish in.
C4_SeqParSameJson ==
  pc = "done" => save_json(seq_results) = save_json(par_results)

\* Both scans are over, two files are in the report, and the worker of the
\* second file finished before the worker of the first.
C4_Witness ==
  /\ pc = "done"
  /\ Len(par_results) >= 2
  /\ par_finished[1] # 1

\* C5: with a file that cannot be read or decoded among N >= 2 files, neither
\* scan aborts; the failing file contributes nothing and every other file has
\* in the final store the entries it has when scanned on its own.
C5_FailingFileIsolated ==
  (Len(files) >= 2 /\ \E i \in 1..Len(files) : files[i].error # "none") =>
    /\ pc # "aborted"
    /\ pc = "done" =>
         \A i \in 1..Len(files) :
           LET key == str(relative_to(files[i].path, ProjectPath))
           IN \A results \in {seq_results, par_results} :
                IF files[i].error # "none" \/ OwnEntries(files[i]) = <<>>
                THEN key \notin DictKeys(results)
                ELSE /\ key \in DictKeys(results)
                     /\ DictGet(results, key) = OwnEntries(files[i])

\* Both scans are over; one file failed and another one is in both stores.
C5_Witness ==
  /\ pc = "done"
  /\ Len(files) >= 2
  /\ \E i, k \in 1..Len(files) :
       /\ files[i].error # "none"
       /\ str(relative_to(files[k].path, ProjectPath))
            \in (DictKeys(seq_results) \cap DictKeys(par_results))

\* C6: a file result holds at most one match per 1-based line number, the one
\* of the first pattern, in list order, that passes the filters and matches
\* the line; a line no such pattern matches, or a skipped line, has none.
C6_FirstPatternWins ==
  \A i \in 1..Len(par_out) :
    par_out[i] # None =>
      LET fr == par_out[i][1].file_results
          lines == files[i].lines
      IN /\ \A a, b \in 1..Len(fr) : a # b => fr[a][1] # fr[b][1]
         /\ DictKeys(fr) \subseteq 1..Len(lines)
         /\ \A n \in 1..Len(lines) :
              LET hits == EligibleMatching(lines[n])
              IN IF Skipped(lines[n]) \/ hits = {}
                 THEN n \notin DictKeys(fr)
                 ELSE LET first == patterns[CHOOSE j \in hits : \A k \in hits : j <= k]
                      IN /\ n \in DictKeys(fr)
                         /\ DictGet(fr, n) = CodeLine(strip(lines[n]), first.ideas,
                                                      first.severity, first.tags)

\* A worker returned a file result for a line that two eligible patterns match.
C6_Witness ==
  \E i \in 1..Len(par_out) :
    /\ par_out[i] # None
    /\ \E n \in DictKeys(par_out[i][1].file_results) :
         Cardinality(EligibleMatching(files[i].lines[n])) >= 2

\* Whether a pattern that passes the filters matches a line of the file that
\* is not skipped.
HasMatchedLine(file) ==
  /\ file.error = "none"
  /\ \E n \in 1..Len(file.lines) :
       ~Skipped(file.lines[n]) /\ EligibleMatching(file.lines[n]) # {}

\* C18: adding an empty file result leaves the store as it is, so at every
\* point of a scan the store and the report written from it have a key only
\* for a file with at least one matched line, and no key with an empty
\* mapping.
C18_NoEmptyFileKey ==
  \A results \in {seq_results, par_results} :
    /\ \A i \in 1..Len(files) :
         add_file_results(results, str(relative_to(files[i].path, ProjectPath)), <<>>)
           = results
    /\ \A k \in 1..Len(results) :
         /\ results[k][2] # <<>>
         /\ save_json(results)[k][2] # <<>>
         /\ \E i \in 1..Len(files) :
              /\ results[k][1] = str(relative_to(files[i].path, ProjectPath))
              /\ HasMatchedLine(files[i])

\* Both scans are over: a readable file without a matched line has no key,
\* another file has one.
C18_Witness ==
  /\ pc = "done"
  /\ par_results # <<>>
  /\ seq_results # <<>>
  /\ \E i \in 1..Len(files) :
       /\ files[i].error = "none"
       /\ ~HasMatchedLine(files[i])
       /\ str(relative_to(files[i].path, ProjectPath))
            \notin (DictKeys(seq_results) \cup DictKeys(par_results))

\* The steps of a submitted file: taken by a worker, analyzed, taken by the
\* loop of analyze(), merged.
FutureSteps ==
  {<<"queued", "running">>, <<"running", "done">>, <<"done", "merging">>,
   <<"merging", "merged">>}

StoreKey(i) == str(relative_to(files[i].path, ProjectPath))

\* The files are analyzed and merged one time each, under distinct paths.
OncePerFile ==
  /\ \A i, j \in 1..Len(files) : i # j => StoreKey(i) # StoreKey(j)
  /\ \A a, b \in 1..Len(par_finished) : a # b => par_finished[a] # par_finished[b]
  /\ seq_i \in 1..(Len(files) + 1)
  /\ par_next = 1 + Cardinality({i \in 1..Len(par_status) : par_status[i] = "merged"})

\* analyze() has returned: no file is pending and every result is in the store.
NothingPending ==
  /\ pc \in {"par", "done"} => seq_i = Len(files) + 1
  /\ pc = "done" =>
       /\ Len(par_status) = Len(files)
       /\ \A i \in 1..Len(files) : par_status[i] = "merged"
       /\ Range(par_finished) = 1..Len(files)
       /\ \A i \in 1..Len(files) : \A results \in {seq_results, par_results} :
             IF OwnEntries(files[i]) = <<>> THEN StoreKey(i) \notin DictKeys(results)
             ELSE /\ StoreKey(i) \in DictKeys(results)
                  /\ DictGet(results, StoreKey(i)) = OwnEntries(files[i])

\* C25: in one analyze() every discovered file is analyzed once and merged
\* once: the sequential loop moves on by one file at a time, a submitted file
\* goes once through queued, running, done, merging and merged and is never
\* submitted again, no two files share a store path, and when analyze()
\* returns no file is pending and every result is in the store.
C25_EachFileOnce ==
  /\ [](OncePerFile /\ NothingPending)
  /\ [][/\ seq_i' \in {seq_i, seq_i + 1}
        /\ Len(par_status) > 0 => Len(par_status') = Len(par_status)
        /\ \A i \in 1..Len(par_status) :
              \/ par_status'[i] = par_status[i]
              \/ <<par_status[i], par_status'[i]>> \in FutureSteps]_vars

\* The parallel analyze() returned with two files in the store, the second
\* of which was analyzed first.
C25_Witness ==
  /\ pc = "done"
  /\ Len(files) = 2
  /\ par_finished = <<2, 1>>
  /\ DictKeys(par_results) = {StoreKey(1), StoreKey(2)}
  /\ DictKeys(seq_results) = {StoreKey(1), StoreKey(2)}

\* C19: in a parallel scan at most one add_file_results is in progress at
\* any time, and the thread inside it is the one that called analyze(), never
\* a worker thread: the workers only return their file results.
C19_StoreWritesSerialized ==
  /\ Cardinality(par_writers) <= 1
  /\ par_writers \subseteq {MainThread}
  /\ Cardinality({i \in 1..Len(par_status) : par_status[i] = "merging"})
       = Cardinality(par_writers)

\* The main thread is inside add_file_results while a worker analyzes a file.
C19_Witness ==
  /\ par_writers = {MainThread}
  /\ \E i \in 1..Len(par_status) : par_status[i] = "running"

(***************************************************************************)
(* LineSpec: a CodeAnalyzer is constructed, then analyze_line is called on  *)
(* arbitrary lines.                                                        *)
(***************************************************************************)
AnalyzerInit ==
  /\ patterns \in PatternLists
  /\ min_severity \in Severity
  /\ \E arg \in TagArgs : selected_tags = CodeAnalyzerSelectedTags(arg)

LineInit ==
  /\ AnalyzerInit
  /\ line = <<>>
  /\ line_results = None
  /\ match_lists = <<>>
  /\ mutated = {}
  /\ store = <<>>
  /\ ScanIdle
  /\ FixIdle
  /\ ToolIdle

\* What a call of analyze_line leaves: the line, the matches and their list
\* objects.  analyze_line assigns nothing of the analyzer.
Analyzed(raw) ==
  /\ line' = raw
  /\ line_results' = Some(analyze_line(patterns, min_severity, selected_tags, raw))
  /\ match_lists' = analyze_line_lists(patterns, min_severity, selected_tags, raw)
  /\ mutated' = {}
  /\ UNCHANGED <<fixVars, toolVars, analyzerVars, store, scanVars>>

\* The first call of analyze_line on the analyzer.
AnalyzeLine(raw) ==
  /\ line_results = None
  /\ Analyzed(raw)

\* What the caller appends to a list of a match.
Marker == "x"

\* The caller appends to the ideas or the tags of match k: the list object
\* changes, and with it every object that holds it.
Mutate(k, field) ==
  /\ line_results # None
  /\ k \in 1..Len(line_results[1])
  /\ <<k, field>> \notin mutated
  /\ line_results' = Some([line_results[1] EXCEPT ![k][field] = Append(@, Marker)])
  /\ patterns' = [i \in 1..Len(patterns) |->
                    IF match_lists[k][field] = ListOf(i, field)
                    THEN [patterns[i] EXCEPT ![field] = Append(@, Marker)]
                    ELSE patterns[i]]
  /\ mutated' = mutated \cup {<<k, field>>}
  /\ UNCHANGED <<fixVars, toolVars, min_severity, selected_tags, line, match_lists, store,
                 scanVars>>

\* The lines of a later call: the line of the last call again, a line every
\* pattern of the pool matches and a comment.
LaterLines == {line, <<"d", "r">>, <<"#">>}

\* A later call of analyze_line on the same analyzer, after the caller
\* changed a match.
AnalyzeAgain(raw) ==
  /\ mutated # {}
  /\ Analyzed(raw)

LineNext ==
  \/ \E raw \in Lines : AnalyzeLine(raw)
  \/ \E k \in 1..MaxPatterns, field \in {"ideas", "tags"} : Mutate(k, field)
  \/ \E raw \in LaterLines : AnalyzeAgain(raw)

LineSpec == LineInit /\ [][LineNext]_vars

\* The matches the claim expects for the last line: one per eligible pattern
\* that matches the stripped line, in the order of the pattern list.
ExpectedMatches ==
  LET indices == SelectSeq([j \in 1..Len(patterns) |-> j],
                           LAMBDA j : j \in EligibleMatching(line))
  IN [k \in 1..Len(indices) |->
        CodeLine(strip(line), patterns[indices[k]].ideas, patterns[indices[k]].severity,
                 patterns[indices[k]].tags)]

\* What analyze_line returned is still as it was returned.
AsReturned == line_results # None /\ mutated = {}

\* C24: for a line that is not skipped analyze_line returns one match per
\* eligible pattern that matches the stripped line, in pattern-list order,
\* with the stripped line and the ideas and tags of the pattern; and no step,
\* a call of analyze_line or an append to a list of a returned match, changes
\* the patterns.
C24_MatchPerPatternAndPatternsKept ==
  /\ [](AsReturned /\ ~Skipped(line) => line_results[1] = ExpectedMatches)
  /\ [][patterns' = patterns]_vars

\* Two patterns matched a line, the caller appended to the ideas and the
\* tags of the first match, and the patterns are as they were loaded.
C24_Witness ==
  /\ line_results # None
  /\ Len(line_results[1]) = 2
  /\ mutated = {<<1, "ideas">>, <<1, "tags">>}
  /\ Marker \in Range(line_results[1][1].ideas)
  /\ Range(patterns) \subseteq PatternPool

\* C1: with min_severity = m, analyze_line never returns a match whose
\* severity ranks below m (info < warning < critical); with m = critical no
\* info or warning match is returned.
C1_SeverityFilter ==
  line_results # None =>
    \A i \in 1..Len(line_results[1]) :
      LET s == line_results[1][i].severity
      IN /\ min_severity = "critical" => s = "critical"
         /\ min_severity = "warning" => s \in {"warning", "critical"}

\* A call returned a match although a pattern of lower severity matches the line.
C1_Witness ==
  /\ line_results # None
  /\ line_results[1] # <<>>
  /\ min_severity = "critical"
  /\ \E i \in 1..Len(patterns) :
       patterns[i].severity # "critical" /\ matches(patterns[i], strip(line))

\* C2: with a non-empty tag filter T, every match returned by analyze_line
\* carries a tag of T, so a pattern with no tag in T (or no tag at all)
\* produces no match.
C2_TagFilter ==
  (line_results # None /\ selected_tags # None) =>
    \A i \in 1..Len(line_results[1]) :
      Range(line_results[1][i].tags) \cap selected_tags[1] # {}

\* A call returned a match while an untagged pattern matching the line was left out.
C2_Witness ==
  /\ line_results # None
  /\ line_results[1] # <<>>
  /\ selected_tags # None
  /\ \E i \in 1..Len(patterns) :
       /\ patterns[i].tags = <<>>
       /\ severity_values[patterns[i].severity] >= severity_values[min_severity]
       /\ matches(patterns[i], strip(line))

\* The line is blank, or its first character that is no whitespace is #.
BlankOrComment(raw) ==
  \/ \A i \in 1..Len(raw) : raw[i] \in Whitespace
  \/ \E i \in 1..Len(raw) :
       /\ raw[i] = "#"
       /\ \A j \in 1..(i - 1) : raw[j] \in Whitespace

\* C17: analyze_line returns the empty list for a blank line and for a line
\* whose first non-whitespace character is #, whatever the patterns and the
\* filters, even when an eligible pattern matches the text of the line.
C17_BlankAndCommentSkipped ==
  (line_results # None /\ BlankOrComment(line)) => line_results[1] = <<>>

\* A comment line that an eligible pattern matches gave no result.
C17_Witness ==
  /\ line_results = Some(<<>>)
  /\ \E i \in 1..Len(line) : line[i] = "#"
  /\ BlankOrComment(line)
  /\ \E i \in 1..Len(patterns) :
       /\ should_include_pattern(patterns[i], min_severity, selected_tags)
       /\ matches(patterns[i], strip(line))

(***************************************************************************)
(* The syntax tree of the fixer (libcst nodes).  Every node is a record of  *)
(* one shape; the fields a kind does not have are empty.  A Call whose      *)
(* func is an Attribute holds the attribute's value and name in func_value  *)
(* and func_attr.                                                          *)
(***************************************************************************)
DQ == "\""
SQ == "'"
\* U+00B2 SUPERSCRIPT TWO: str.isdigit() is true of it and int() rejects it
SUP2 == "sup2"

Node(kind, value, func_kind, func_value, func_attr, args, parts) ==
  [kind |-> kind, value |-> value, func_kind |-> func_kind,
   func_value |-> func_value, func_attr |-> func_attr, args |-> args,
   parts |-> parts]

Name(value) == Node("Name", value, "", <<>>, "", <<>>, <<>>)

\* value is the literal as written, quotes included
SimpleString(value) == Node("SimpleString", value, "", <<>>, "", <<>>, <<>>)

\* cst.Call(func=cst.Attribute(value=receiver, attr=cst.Name(attr)), args=args)
MethodCall(receiver, attr, args) ==
  Node("Call", <<>>, "Attribute", <<receiver>>, attr, args, <<>>)

\* cst.FormattedString(parts=parts, start="f\"", end="\"")
FormattedString(parts) == Node("FormattedString", <<>>, "", <<>>, "", <<>>, parts)

\* cst.Arg: keyword is None or the keyword's name
Arg(keyword, value) == [keyword |-> keyword, value |-> value]

FormattedStringText(value) ==
  [kind |-> "FormattedStringText", value |-> value, expression |-> <<>>]

FormattedStringExpression(expression) ==
  [kind |-> "FormattedStringExpression", value |-> <<>>, expression |-> <<expression>>]

(***************************************************************************)
(* FormatToFString.leave_Call.                                             *)
(***************************************************************************)
AsciiDigits == {"0", "1", "2", "3", "4", "5", "6", "7", "8", "9"}

\* str.isdigit()
isdigit(s) == s # <<>> /\ \A i \in 1..Len(s) : s[i] \in AsciiDigits \cup {SUP2}

\* whether int(s) raises ValueError, for a string isdigit() is true of
int_raises(s) == \E i \in 1..Len(s) : s[i] \notin AsciiDigits

DigitValue(c) ==
  CASE c = "0" -> 0 [] c = "1" -> 1 [] c = "2" -> 2 [] c = "3" -> 3 [] c = "4" -> 4
    [] c = "5" -> 5 [] c = "6" -> 6 [] c = "7" -> 7 [] c = "8" -> 8 [] c = "9" -> 9

\* int(s), for a string of ASCII digits
RECURSIVE int(_)
int(s) ==
  IF s = <<>> THEN 0
  ELSE int(SubSeq(s, 1, Len(s) - 1)) * 10 + DigitValue(s[Len(s)])

\* The end (exclusive, 0-based) of a match of \{([^{}]*)\} that starts at the
\* 0-based offset start, or -1: the first brace after the opening one has
\* to be a closing one.
RECURSIVE match_end(_, _)
match_end(template, at) ==
  IF at >= Len(template) THEN -1
  ELSE IF template[at + 1] = "}" THEN at + 1
  ELSE IF template[at + 1] = "{" THEN -1
  ELSE match_end(template, at + 1)

\* re.finditer(placeholder_pattern, template) from the 0-based offset pos on:
\* the matches left to right, each with its span() and its group(1).
RECURSIVE finditer(_, _)
finditer(template, pos) ==
  IF pos >= Len(template) THEN <<>>
  ELSE IF template[pos + 1] # "{" THEN finditer(template, pos + 1)
  ELSE LET end == match_end(template, pos + 1)
       IN IF end = -1 THEN finditer(template, pos + 1)
          ELSE <<[start |-> pos, end |-> end,
                  group |-> SubSeq(template, pos + 2, end - 1)]>>
               \o finditer(template, end)

\* The arguments without a keyword, in order (the value nodes).
RECURSIVE positional_args_of(_)
positional_args_of(args) ==
  IF args = <<>> THEN <<>>
  ELSE (IF Head(args).keyword = None THEN <<Head(args).value>> ELSE <<>>)
       \o positional_args_of(Tail(args))

\* keyword_args: the last argument of a keyword is the one kept
RECURSIVE keyword_args_of(_)
keyword_args_of(args) ==
  IF args = <<>> THEN <<>>
  ELSE LET last == args[Len(args)]
           before == keyword_args_of(SubSeq(args, 1, Len(args) - 1))
       IN IF last.keyword = None THEN before
          ELSE DictSet(before, last.keyword[1], last.value)

process_placeholder_by_cursor(placeholder, idx, positional_args, keyword_args) ==
  IF placeholder = <<>>
  THEN IF idx < Len(positional_args)
       THEN [parts |-> <<FormattedStringExpression(positional_args[idx + 1])>>,
             idx |-> idx + 1, raised |-> FALSE]
       ELSE [parts |-> <<>>, idx |-> idx, raised |-> FALSE]
  ELSE IF isdigit(placeholder)
  THEN IF int_raises(placeholder)
       THEN [parts |-> <<>>, idx |-> idx, raised |-> TRUE]
       ELSE IF idx < Len(positional_args)
            THEN [parts |-> <<FormattedStringExpression(positional_args[idx + 1])>>,
                  idx |-> idx, raised |-> FALSE]
            ELSE [parts |-> <<>>, idx |-> idx, raised |-> FALSE]
  ELSE IF placeholder \in DictKeys(keyword_args)
       THEN [parts |-> <<FormattedStringExpression(DictGet(keyword_args, placeholder))>>,
             idx |-> idx, raised |-> FALSE]
       ELSE [parts |-> <<>>, idx |-> idx, raised |-> FALSE]

process_placeholder_always_advance(placeholder, idx, positional_args, keyword_args) ==
  IF placeholder = <<>>
  THEN IF idx < Len(positional_args)
       THEN [parts |-> <<FormattedStringExpression(positional_args[idx + 1])>>,
             idx |-> idx + 1, raised |-> FALSE]
       ELSE [parts |-> <<>>, idx |-> idx, raised |-> FALSE]
  ELSE IF isdigit(placeholder)
  THEN IF int_raises(placeholder)
       THEN [parts |-> <<>>, idx |-> idx, raised |-> TRUE]
       ELSE IF int(placeholder) < Len(positional_args)
            THEN [parts |-> <<FormattedStringExpression(positional_args[int(placeholder) + 1])>>,
                  idx |-> idx + 1, raised |-> FALSE]
            ELSE [parts |-> <<>>, idx |-> idx, raised |-> FALSE]
  ELSE IF placeholder \in DictKeys(keyword_args)
       THEN [parts |-> <<FormattedStringExpression(DictGet(keyword_args, placeholder))>>,
             idx |-> idx, raised |-> FALSE]
       ELSE [parts |-> <<>>, idx |-> idx, raised |-> FALSE]

\* The variant in which a placeholder without an argument is an error, as it
\* is for str.format.
process_placeholder_strict(placeholder, idx, positional_args, keyword_args) ==
  IF placeholder = <<>>
  THEN IF idx < Len(positional_args)
       THEN [parts |-> <<FormattedStringExpression(positional_args[idx + 1])>>,
             idx |-> idx + 1, raised |-> FALSE]
       ELSE [parts |-> <<>>, idx |-> idx, raised |-> TRUE]
  ELSE IF isdigit(placeholder)
  THEN IF int_raises(placeholder)
       THEN [parts |-> <<>>, idx |-> idx, raised |-> TRUE]
       ELSE IF int(placeholder) < Len(positional_args)
            THEN [parts |-> <<FormattedStringExpression(positional_args[int(placeholder) + 1])>>,
                  idx |-> idx, raised |-> FALSE]
            ELSE [parts |-> <<>>, idx |-> idx, raised |-> TRUE]
  ELSE IF placeholder \in DictKeys(keyword_args)
       THEN [parts |-> <<FormattedStringExpression(DictGet(keyword_args, placeholder))>>,
             idx |-> idx, raised |-> FALSE]
       ELSE [parts |-> <<>>, idx |-> idx, raised |-> TRUE]

\* leave_Call lines 70-84: the parts one placeholder adds and the cursor idx
\* after it; int() raises ValueError for a digit that is not a decimal one.
process_placeholder(placeholder, idx, positional_args, keyword_args) ==
  IF placeholder = <<>>
  THEN IF idx < Len(positional_args)
       THEN [parts |-> <<FormattedStringExpression(positional_args[idx + 1])>>,
             idx |-> idx + 1, raised |-> FALSE]
       ELSE [parts |-> <<>>, idx |-> idx, raised |-> FALSE]
  ELSE IF isdigit(placeholder)
  THEN IF int_raises(placeholder)
       THEN [parts |-> <<>>, idx |-> idx, raised |-> TRUE]
       ELSE IF int(placeholder) < Len(positional_args)
            THEN [parts |-> <<FormattedStringExpression(positional_args[int(placeholder) + 1])>>,
                  idx |-> idx, raised |-> FALSE]
            ELSE [parts |-> <<>>, idx |-> idx, raised |-> FALSE]
  ELSE IF placeholder \in DictKeys(keyword_args)
       THEN [parts |-> <<FormattedStringExpression(DictGet(keyword_args, placeholder))>>,
             idx |-> idx, raised |-> FALSE]
       ELSE [parts |-> <<>>, idx |-> idx, raised |-> FALSE]

\* The loop of leave_Call over the placeholders, from match i on.
RECURSIVE placeholder_loop(_, _, _, _, _, _, _, _)
placeholder_loop(template, placeholders, i, positional_args, keyword_args, parts, last_end, idx) ==
  IF i > Len(placeholders)
  THEN [parts |-> IF last_end < Len(template)
                  THEN Append(parts, FormattedStringText(
                                       SubSeq(template, last_end + 1, Len(template))))
                  ELSE parts,
        raised |-> FALSE]
  ELSE LET match == placeholders[i]
           with_text == IF match.start > last_end
                        THEN Append(parts, FormattedStringText(
                                             SubSeq(template, last_end + 1, match.start)))
                        ELSE parts
           step == process_placeholder(match.group, idx, positional_args, keyword_args)
       IN IF step.raised THEN [parts |-> with_text, raised |-> TRUE]
          ELSE placeholder_loop(template, placeholders, i + 1, positional_args,
                                keyword_args, with_text \o step.parts, match.end,
                                step.idx)

\* leave_Call lines 22-26
is_format_call(node) ==
  /\ node.kind = "Call"
  /\ node.func_kind = "Attribute"
  /\ node.func_value[1].kind = "SimpleString"
  /\ node.func_attr = "format"

\* leave_Call lines 28-32
template_of(node) ==
  LET template == node.func_value[1].value
  IN IF template # <<>> /\ Head(template) \in {SQ, DQ}
     THEN SubSeq(template, 2, Len(template) - 1)
     ELSE template

\* The variant that rewrites every method call on a string literal, whatever
\* the name of the method.
leave_Call_any_method(original_node, updated_node) ==
  IF /\ original_node.kind = "Call"
     /\ original_node.func_kind = "Attribute"
     /\ original_node.func_value[1].kind = "SimpleString"
  THEN LET template == template_of(original_node)
           built == placeholder_loop(template, finditer(template, 0), 1,
                                     positional_args_of(original_node.args),
                                     keyword_args_of(original_node.args), <<>>, 0, 0)
       IN [node |-> FormattedString(built.parts), counted |-> ~built.raised,
           raised |-> built.raised]
  ELSE [node |-> updated_node, counted |-> FALSE, raised |-> FALSE]

\* The variant that counts a call only when a placeholder of its template
\* became an expression.
leave_Call_counts_expressions(original_node, updated_node) ==
  IF is_format_call(original_node)
  THEN LET template == template_of(original_node)
           built == placeholder_loop(template, finditer(template, 0), 1,
                                     positional_args_of(original_node.args),
                                     keyword_args_of(original_node.args), <<>>, 0, 0)
       IN [node |-> FormattedString(built.parts),
           counted |-> /\ ~built.raised
                       /\ \E i \in 1..Len(built.parts) : built.parts[i].expression # <<>>,
           raised |-> built.raised]
  ELSE [node |-> updated_node, counted |-> FALSE, raised |-> FALSE]

\* FormatToFString.leave_Call: the node that replaces the call, whether
\* self.changes is incremented, and whether the method raises.
leave_Call(original_node, updated_node) ==
  IF is_format_call(original_node)
  THEN LET template == template_of(original_node)
           built == placeholder_loop(template, finditer(template, 0), 1,
                                     positional_args_of(original_node.args),
                                     keyword_args_of(original_node.args), <<>>, 0, 0)
       IN [node |-> FormattedString(built.parts), counted |-> ~built.raised,
           raised |-> built.raised]
  ELSE [node |-> updated_node, counted |-> FALSE, raised |-> FALSE]

(***************************************************************************)
(* The tree walk: module.visit(self).  Children are visited before         *)
(* leave_Call is called on their parent: the func of a Call, then its args *)
(* in order.  A walk returns the node that replaces the visited one, the   *)
(* value of self.changes after it and whether an exception left it.        *)
(***************************************************************************)
RECURSIVE visit(_, _), visit_args(_, _, _), visit_parts(_, _, _)

visit(node, count) ==
  IF node.kind = "Call"
  THEN LET func == IF node.func_value = <<>>
                   THEN [node |-> node, changes |-> count, raised |-> FALSE]
                   ELSE visit(node.func_value[1], count)
       IN IF func.raised THEN [node |-> node, changes |-> func.changes, raised |-> TRUE]
          ELSE LET args == visit_args(node.args, 1, func.changes)
               IN IF args.raised
                  THEN [node |-> node, changes |-> args.changes, raised |-> TRUE]
                  ELSE LET updated_node ==
                             [node EXCEPT !.func_value =
                                            IF node.func_value = <<>> THEN <<>>
                                            ELSE <<func.node>>,
                                          !.args = args.args]
                           left == leave_Call(node, updated_node)
                       IN [node |-> left.node,
                           changes |-> IF left.counted THEN args.changes + 1
                                       ELSE args.changes,
                           raised |-> left.raised]
  ELSE IF node.kind = "FormattedString"
  THEN LET parts == visit_parts(node.parts, 1, count)
       IN [node |-> [node EXCEPT !.parts = parts.parts], changes |-> parts.changes,
           raised |-> parts.raised]
  ELSE [node |-> node, changes |-> count, raised |-> FALSE]

visit_args(args, i, count) ==
  IF i > Len(args) THEN [args |-> args, changes |-> count, raised |-> FALSE]
  ELSE LET value == visit(args[i].value, count)
       IN IF value.raised THEN [args |-> args, changes |-> value.changes, raised |-> TRUE]
          ELSE visit_args([args EXCEPT ![i].value = value.node], i + 1, value.changes)

visit_parts(parts, i, count) ==
  IF i > Len(parts) THEN [parts |-> parts, changes |-> count, raised |-> FALSE]
  ELSE IF parts[i].expression = <<>> THEN visit_parts(parts, i + 1, count)
  ELSE LET value == visit(parts[i].expression[1], count)
       IN IF value.raised
          THEN [parts |-> parts, changes |-> value.changes, raised |-> TRUE]
          ELSE visit_parts([parts EXCEPT ![i].expression = <<value.node>>], i + 1,
                           value.changes)

\* The walk over the statements of the module, from statement i on.
RECURSIVE visit_body(_, _, _)
visit_body(body, i, count) ==
  IF i > Len(body) THEN [body |-> body, changes |-> count, raised |-> FALSE]
  ELSE LET value == visit(body[i], count)
       IN IF value.raised THEN [body |-> body, changes |-> value.changes, raised |-> TRUE]
          ELSE visit_body([body EXCEPT ![i] = value.node], i + 1, value.changes)

(***************************************************************************)
(* Source text.  A source text is modelled by the tree it is the code of   *)
(* (body, one expression statement per element) and by whether it holds a  *)
(* syntax error besides.  Module.code writes a FormattedString as f", its  *)
(* parts and ": a text part as it is, an expression part between braces.   *)
(* cst.parse_module reads that text again: a doubled brace of the text is  *)
(* a literal brace, a single { opens an expression that the next } closes, *)
(* a single } is an error, and so is a text part that holds the closing    *)
(* quote.                                                                  *)
(***************************************************************************)
SourceText(syntax_error, body) == [syntax_error |-> syntax_error, body |-> body]

\* Module.code
code(body) == SourceText(FALSE, body)

Ch(c) == [c |-> c, e |-> <<>>]
Atom(node) == [c |-> "", e |-> <<node>>]

\* The text between the quotes of a FormattedString, expression code kept whole.
RECURSIVE fstring_items(_)
fstring_items(parts) ==
  IF parts = <<>> THEN <<>>
  ELSE LET part == Head(parts)
       IN (IF part.kind = "FormattedStringText"
           THEN [i \in 1..Len(part.value) |-> Ch(part.value[i])]
           ELSE <<Ch("{"), Atom(part.expression[1]), Ch("}")>>)
          \o fstring_items(Tail(parts))

\* Whether the code of the node holds a double quote.
RECURSIVE has_double_quote(_)
has_double_quote(node) ==
  \/ node.kind = "FormattedString"
  \/ node.kind = "SimpleString" /\ \E i \in 1..Len(node.value) : node.value[i] = DQ
  \/ \E i \in 1..Len(node.func_value) : has_double_quote(node.func_value[i])
  \/ \E i \in 1..Len(node.args) : has_double_quote(node.args[i].value)

IdentifierStart == {"a", "b", "c", "k", "s"}

\* The pseudo-character that stands for expression code read as literal text.
CODE == "code"

flush(parts, lit) ==
  IF lit = <<>> THEN parts ELSE Append(parts, FormattedStringText(lit))

\* The index of the first } of items after position i, or 0.
RECURSIVE closing_brace(_, _)
closing_brace(items, i) ==
  IF i >= Len(items) THEN 0
  ELSE IF items[i + 1].c = "}" THEN i + 1
  ELSE closing_brace(items, i + 1)

RECURSIVE parse_node(_, _), parse_fstring(_, _, _, _, _)

\* The parts the parser reads from the items from position i on, after the
\* literal text lit; ok is FALSE for a syntax error.
parse_fstring(items, i, lit, parts, quotes_ok) ==
  IF i > Len(items) THEN [ok |-> TRUE, parts |-> flush(parts, lit)]
  ELSE IF items[i].e # <<>>
  THEN IF has_double_quote(items[i].e[1]) THEN [ok |-> FALSE, parts |-> <<>>]
       ELSE parse_fstring(items, i + 1, Append(lit, CODE), parts, quotes_ok)
  ELSE IF items[i].c = DQ THEN [ok |-> FALSE, parts |-> <<>>]
  ELSE IF items[i].c = "{" /\ i < Len(items) /\ items[i + 1].c = "{"
  THEN parse_fstring(items, i + 2, Append(lit, "{"), parts, quotes_ok)
  ELSE IF items[i].c = "}" /\ i < Len(items) /\ items[i + 1].c = "}"
  THEN parse_fstring(items, i + 2, Append(lit, "}"), parts, quotes_ok)
  ELSE IF items[i].c = "}" THEN [ok |-> FALSE, parts |-> <<>>]
  ELSE IF items[i].c # "{"
  THEN parse_fstring(items, i + 1, Append(lit, items[i].c), parts, quotes_ok)
  ELSE LET close == closing_brace(items, i)
           inner == IF close = 0 THEN <<>> ELSE SubSeq(items, i + 1, close - 1)
           content == SelectSeq(inner, LAMBDA it : it.c # " ")
           chars == [j \in 1..Len(content) |-> content[j].c]
       IN IF close = 0 \/ content = <<>> THEN [ok |-> FALSE, parts |-> <<>>]
          ELSE IF Len(content) = 1 /\ content[1].e # <<>>
          THEN LET node == content[1].e[1]
                   parsed == parse_node(node, quotes_ok)
               IN IF ~parsed.ok \/ (has_double_quote(node) /\ ~quotes_ok)
                  THEN [ok |-> FALSE, parts |-> <<>>]
                  ELSE parse_fstring(items, close + 1, <<>>,
                         Append(flush(parts, lit), FormattedStringExpression(parsed.node)),
                         quotes_ok)
          ELSE IF \E j \in 1..Len(content) : content[j].e # <<>> \/ content[j].c = "{"
          THEN [ok |-> FALSE, parts |-> <<>>]
          ELSE IF chars[1] \in IdentifierStart
                  /\ \A j \in 1..Len(chars) : chars[j] \in IdentifierStart \cup AsciiDigits
          THEN parse_fstring(items, close + 1, <<>>,
                 Append(flush(parts, lit), FormattedStringExpression(Name(chars))),
                 quotes_ok)
          ELSE IF \A j \in 1..Len(chars) : chars[j] \in AsciiDigits
          THEN parse_fstring(items, close + 1, <<>>,
                 Append(flush(parts, lit), FormattedStringExpression(
                   Node("Integer", chars, "", <<>>, "", <<>>, <<>>))),
                 quotes_ok)
          ELSE [ok |-> FALSE, parts |-> <<>>]

\* The node the parser reads from the code of node.
parse_node(node, quotes_ok) ==
  IF node.kind = "FormattedString"
  THEN LET read == parse_fstring(fstring_items(node.parts), 1, <<>>, <<>>, quotes_ok)
       IN [ok |-> read.ok, node |-> FormattedString(read.parts)]
  ELSE IF node.kind = "Call"
  THEN LET func == [i \in 1..Len(node.func_value) |->
                      parse_node(node.func_value[i], quotes_ok)]
           args == [i \in 1..Len(node.args) |-> parse_node(node.args[i].value, quotes_ok)]
       IN [ok |-> (\A i \in 1..Len(func) : func[i].ok) /\ (\A i \in 1..Len(args) : args[i].ok),
           node |-> [node EXCEPT !.func_value = [i \in 1..Len(func) |-> func[i].node],
                                 !.args = [i \in 1..Len(args) |->
                                             Arg(node.args[i].keyword, args[i].node)]]]
  ELSE [ok |-> TRUE, node |-> node]

\* cst.parse_module: ok is FALSE when it raises ParserSyntaxError
parse_module(source_code, quotes_ok) ==
  LET read == [i \in 1..Len(source_code.body) |-> parse_node(source_code.body[i], quotes_ok)]
  IN IF source_code.syntax_error \/ \E i \in 1..Len(read) : ~read[i].ok
     THEN [ok |-> FALSE, body |-> <<>>]
     ELSE [ok |-> TRUE, body |-> [i \in 1..Len(read) |-> read[i].node]]

(***************************************************************************)
(* FormatToFString.apply.                                                  *)
(***************************************************************************)
apply_keeps_count(source_code, quotes_ok) ==
  LET module == parse_module(source_code, quotes_ok)
      walk == visit_body(module.body, 1, 0)
  IN IF ~module.ok
     THEN [code |-> source_code, count |-> 0, changes |-> 0,
           caught |-> Some("ParserSyntaxError")]
     ELSE IF walk.raised
     THEN [code |-> source_code, count |-> walk.changes, changes |-> walk.changes,
           caught |-> Some("ValueError")]
     ELSE [code |-> code(walk.body), count |-> walk.changes, changes |-> walk.changes,
           caught |-> None]

\* FormatToFString.apply: the pair returned (code, count), self.changes after
\* the call and the exception the except clause caught.
apply(source_code, quotes_ok) ==
  LET module == parse_module(source_code, quotes_ok)
      walk == visit_body(module.body, 1, 0)
  IN IF ~module.ok
     THEN [code |-> source_code, count |-> 0, changes |-> 0,
           caught |-> Some("ParserSyntaxError")]
     ELSE IF walk.raised
     THEN [code |-> source_code, count |-> 0, changes |-> walk.changes,
           caught |-> Some("ValueError")]
     ELSE [code |-> code(walk.body), count |-> walk.changes, changes |-> walk.changes,
           caught |-> None]

(***************************************************************************)
(* FixSpec: a FormatToFString is constructed, apply is called on a source  *)
(* text and then on the text it returned.                                  *)
(***************************************************************************)
MaxSegments == 2
MaxArgs == 2
MaxApplies == 2

NameA == Name(<<"a">>)
NameB == Name(<<"b">>)
NameC == Name(<<"c">>)
NameS == Name(<<"s">>)

Quote(q, body) == <<q>> \o body \o <<q>>

\* What templates are made of: the three kinds of placeholder, literal text,
\* stray braces and a placeholder on which int() raises.
Segments ==
  { <<"{", "}">>, <<"{", "0", "}">>, <<"{", "1", "}">>, <<"{", "k", "}">>,
    <<"a">>, <<"{">>, <<"}">>, <<"{", SUP2, "}">> }

RECURSIVE TemplatesUpTo(_)
TemplatesUpTo(n) ==
  IF n = 0 THEN {<<>>}
  ELSE LET shorter == TemplatesUpTo(n - 1)
       IN shorter \cup {t \o seg : t \in shorter, seg \in Segments}

\* "{0} {1} {0}" and "{} {k}", the templates of the specification's examples
IndexedExample == <<"{", "0", "}", " ", "{", "1", "}", " ", "{", "0", "}">>
MixedExample == <<"{", "}", " ", "{", "k", "}">>

Templates == TemplatesUpTo(MaxSegments) \cup {IndexedExample, MixedExample}

\* Argument lists: positional arguments, then at most one keyword argument.
ArgLists ==
  LET positional == {[i \in 1..Len(p) |-> Arg(None, p[i])] :
                       p \in SeqsUpTo({NameA, NameB}, MaxArgs)}
  IN positional
       \cup {p \o <<Arg(Some(<<"k">>), NameC)>> : p \in {q \in positional : Len(q) < MaxArgs}}

FlatCalls ==
  {MethodCall(SimpleString(Quote(DQ, t)), "format", args) :
     t \in Templates, args \in ArgLists}

\* Calls that are arguments or receivers of other calls.
InnerCalls ==
  { MethodCall(SimpleString(Quote(SQ, <<"a">>)), "format", <<>>),
    MethodCall(SimpleString(Quote(SQ, <<"{", "}">>)), "format", <<Arg(None, NameA)>>),
    MethodCall(SimpleString(Quote(DQ, <<"a">>)), "format", <<>>),
    MethodCall(SimpleString(Quote(SQ, <<"{", SUP2, "}">>)), "format", <<>>),
    MethodCall(NameS, "format", <<Arg(None, NameA)>>) }

OuterTemplates ==
  { <<"{", "}">>, <<"{", "1", "}", "{", "0", "}">>, <<"a">>, <<"{", "k", "}">>,
    <<"{", SUP2, "}">>, <<"{", "{", "{", "}", "}", "}">> }

NestedArgLists ==
  {<<Arg(None, i)>> : i \in InnerCalls}
    \cup {<<Arg(None, NameA), Arg(None, i)>> : i \in InnerCalls}
    \cup {<<Arg(None, i), Arg(None, j)>> : i \in InnerCalls, j \in InnerCalls}
    \cup {<<Arg(Some(<<"k">>), i)>> : i \in InnerCalls}

NestedCalls ==
  {MethodCall(SimpleString(Quote(DQ, t)), "format", args) :
     t \in OuterTemplates, args \in NestedArgLists}

\* Calls leave_Call does not rewrite, some with a format call inside, a
\* literal with a prefix, and expressions that are no call.
OtherExpressions ==
  {MethodCall(NameS, "format", args) : args \in ArgLists}
    \cup {MethodCall(SimpleString(Quote(DQ, <<"{", "}">>)), "join", args) : args \in ArgLists}
    \cup {MethodCall(i, "format", <<Arg(None, NameA)>>) : i \in InnerCalls}
    \cup {MethodCall(NameS, "join", <<Arg(None, i)>>) : i \in InnerCalls}
    \cup {MethodCall(SimpleString(<<"r">> \o Quote(DQ, <<"{", "}">>)), "format",
                     <<Arg(None, NameA)>>),
          NameA,
          SimpleString(Quote(DQ, <<"{", "}">>)),
          FormattedString(<<FormattedStringText(<<"a">>), FormattedStringExpression(NameA)>>)}

\* A template between single quotes whose literal text holds double quotes.
QuotedExample == <<DQ, "{", "}", DQ, " ", "{", "k", "}">>

QuotedCalls ==
  {MethodCall(SimpleString(Quote(SQ, QuotedExample)), "format", args) : args \in ArgLists}

Expressions == FlatCalls \cup NestedCalls \cup QuotedCalls \cup OtherExpressions

\* Source texts: one expression statement, two statements, and texts with a
\* syntax error.
Sources ==
  {SourceText(FALSE, <<e>>) : e \in Expressions}
    \cup {SourceText(FALSE, <<e1, e2>>) : e1 \in InnerCalls, e2 \in InnerCalls}
    \cup {SourceText(TRUE, <<e>>) : e \in InnerCalls \cup {NameA}}

FixInit ==
  /\ patterns = <<>>
  /\ min_severity = "info"
  /\ selected_tags = None
  /\ line = <<>>
  /\ line_results = None
  /\ match_lists = <<>>
  /\ mutated = {}
  /\ store = <<>>
  /\ ScanIdle
  /\ ToolIdle
  /\ source = <<>>
  /\ result = None
  /\ changes = 0
  /\ caught = None
  /\ applied = 0
  /\ nested_quotes_ok \in BOOLEAN

Applied(source_code) ==
  \E returned \in {apply(source_code, nested_quotes_ok)} :
     /\ source' = source_code
     /\ result' = Some([code |-> returned.code, count |-> returned.count])
     /\ changes' = returned.changes
     /\ caught' = returned.caught
     /\ applied' = applied + 1
     /\ UNCHANGED <<analyzerVars, lineVars, store, scanVars, toolVars, nested_quotes_ok>>

\* fixer.apply(source_code) on a new fixer
Apply(source_code) ==
  /\ applied = 0
  /\ Applied(source_code)

\* fixer.apply(new_text), new_text being the text the last call returned
ApplyAgain ==
  /\ applied \in 1..(MaxApplies - 1)
  /\ Applied(result[1].code)

FixNext ==
  \/ \E source_code \in Sources : Apply(source_code)
  \/ ApplyAgain

FixSpec == FixInit /\ [][FixNext]_vars

\* C7: apply applied to the text apply returned reports no change: no format
\* call is left to rewrite and no interpolated string is rewritten again.
C7_Idempotent ==
  applied >= 2 => result[1].count = 0

\* C8: apply never lets an exception out: when parsing or the tree walk
\* fails, it returns exactly (source_text, 0), even if calls had been counted
\* before the failure.
C8_FailureReturnsSource ==
  /\ applied > 0 => result # None
  /\ caught # None => result[1] = [code |-> source, count |-> 0]

\* The walk failed after a call had been counted.
C8_Witness ==
  /\ caught = Some("ValueError")
  /\ changes > 0
  /\ result[1] = [code |-> source, count |-> 0]

\* The statements of the last source text that are format calls on a string
\* literal, when apply rewrote the text.
RewrittenCalls ==
  IF result = None \/ caught # None THEN {}
  ELSE {st \in 1..Len(source.body) :
          is_format_call(parse_module(source, nested_quotes_ok).body[st])}

CallOf(st) == parse_module(source, nested_quotes_ok).body[st]

\* The expressions of the interpolated string that replaced statement st.
ReferencesOf(st) ==
  LET parts == result[1].code.body[st].parts
      expressions == SelectSeq(parts, LAMBDA part : part.kind = "FormattedStringExpression")
  IN [i \in 1..Len(expressions) |-> expressions[i].expression[1]]

PlaceholdersOf(st) == finditer(template_of(CallOf(st)), 0)

IsEmpty(st, i) == PlaceholdersOf(st)[i].group = <<>>

IsIndexed(st, i) ==
  LET group == PlaceholdersOf(st)[i].group
  IN group # <<>> /\ \A j \in 1..Len(group) : group[j] \in AsciiDigits

EmptiesBefore(st, i) == Cardinality({j \in 1..(i - 1) : IsEmpty(st, j)})

\* Whether placeholder i of statement st has an argument to stand for it.
Resolves(st, i) ==
  LET args == CallOf(st).args
      positional == {j \in 1..Len(args) : args[j].keyword = None}
      keywords == {args[j].keyword[1] : j \in (1..Len(args)) \ positional}
      group == PlaceholdersOf(st)[i].group
  IN IF IsEmpty(st, i) THEN EmptiesBefore(st, i) < Cardinality(positional)
     ELSE IF IsIndexed(st, i) THEN int(group) < Cardinality(positional)
     ELSE group \in keywords

\* Where the expression of placeholder i stands among the references.
ReferenceIndex(st, i) == 1 + Cardinality({j \in 1..(i - 1) : Resolves(st, j)})

PositionalOf(st) == positional_args_of(CallOf(st).args)

IndexedExampleCall ==
  MethodCall(SimpleString(Quote(DQ, IndexedExample)), "format",
             <<Arg(None, NameA), Arg(None, NameB)>>)

\* C9: an all-digit placeholder {n} stands for positional argument n, wherever
\* the cursor of the empty placeholders is and as often as it occurs:
\* "{0} {1} {0}".format(a, b) references a, b, a in that order.
C9_IndexedPlaceholder ==
  \A st \in RewrittenCalls :
    /\ \A i \in 1..Len(PlaceholdersOf(st)) :
         (IsIndexed(st, i) /\ int(PlaceholdersOf(st)[i].group) < Len(PositionalOf(st))) =>
           /\ ReferenceIndex(st, i) <= Len(ReferencesOf(st))
           /\ ReferencesOf(st)[ReferenceIndex(st, i)]
                = PositionalOf(st)[int(PlaceholdersOf(st)[i].group) + 1]
    /\ CallOf(st) = IndexedExampleCall => ReferencesOf(st) = <<NameA, NameB, NameA>>

\* "{0} {1} {0}".format(a, b) was rewritten.
C9_Witness ==
  /\ applied = 1
  /\ source = SourceText(FALSE, <<IndexedExampleCall>>)
  /\ result[1].count = 1
  /\ ReferencesOf(1) = <<NameA, NameB, NameA>>

\* C10: the k-th empty placeholder (from 0, left to right) stands for
\* positional argument k: the cursor starts at 0, moves by one per empty
\* placeholder and is not moved by an indexed or a named placeholder.
C10_EmptyPlaceholder ==
  \A st \in RewrittenCalls :
    \A i \in 1..Len(PlaceholdersOf(st)) :
      (IsEmpty(st, i) /\ EmptiesBefore(st, i) < Len(PositionalOf(st))) =>
        /\ ReferenceIndex(st, i) <= Len(ReferencesOf(st))
        /\ ReferencesOf(st)[ReferenceIndex(st, i)]
             = PositionalOf(st)[EmptiesBefore(st, i) + 1]

\* "{1}{}".format(a, b) was rewritten: the empty placeholder after the
\* indexed one stands for the first argument.
C10_Witness ==
  /\ applied = 1
  /\ source = SourceText(FALSE,
       <<MethodCall(SimpleString(Quote(DQ, <<"{", "1", "}", "{", "}">>)), "format",
                    <<Arg(None, NameA), Arg(None, NameB)>>)>>)
  /\ ReferencesOf(1) = <<NameB, NameA>>

(***************************************************************************)
(* What the two expressions evaluate to.  A value is a sequence of items:  *)
(* a character of literal text, or an argument expression standing for the *)
(* text of its value.                                                      *)
(***************************************************************************)
\* str.format of Python on the template: {{ and }} are literal braces, an
\* empty field takes the next positional argument, a decimal field the
\* argument of that index, any other field the keyword argument of that
\* name; a lone brace, a missing argument and a switch between automatic and
\* manual numbering raise.
RECURSIVE str_format_from(_, _, _, _, _, _, _)
str_format_from(template, i, auto, numbering, positional_args, keyword_args, items) ==
  IF i > Len(template) THEN [raised |-> FALSE, items |-> items]
  ELSE IF template[i] = "}"
  THEN IF i < Len(template) /\ template[i + 1] = "}"
       THEN str_format_from(template, i + 2, auto, numbering, positional_args,
                            keyword_args, Append(items, Ch("}")))
       ELSE [raised |-> TRUE, items |-> <<>>]
  ELSE IF template[i] # "{"
  THEN str_format_from(template, i + 1, auto, numbering, positional_args,
                       keyword_args, Append(items, Ch(template[i])))
  ELSE IF i < Len(template) /\ template[i + 1] = "{"
  THEN str_format_from(template, i + 2, auto, numbering, positional_args,
                       keyword_args, Append(items, Ch("{")))
  ELSE IF ~\E j \in (i + 1)..Len(template) : template[j] = "}"
  THEN [raised |-> TRUE, items |-> <<>>]
  ELSE LET close == CHOOSE j \in (i + 1)..Len(template) :
                      /\ template[j] = "}"
                      /\ \A h \in (i + 1)..(j - 1) : template[h] # "}"
           field == SubSeq(template, i + 1, close - 1)
       IN IF \E h \in 1..Len(field) : field[h] = "{"
          THEN [raised |-> TRUE, items |-> <<>>]
          ELSE IF field = <<>>
          THEN IF numbering = "manual" \/ auto >= Len(positional_args)
               THEN [raised |-> TRUE, items |-> <<>>]
               ELSE str_format_from(template, close + 1, auto + 1, "automatic",
                                    positional_args, keyword_args,
                                    Append(items, Atom(positional_args[auto + 1])))
          ELSE IF \A h \in 1..Len(field) : field[h] \in AsciiDigits
          THEN IF numbering = "automatic" \/ int(field) >= Len(positional_args)
               THEN [raised |-> TRUE, items |-> <<>>]
               ELSE str_format_from(template, close + 1, auto, "manual",
                                    positional_args, keyword_args,
                                    Append(items, Atom(positional_args[int(field) + 1])))
          ELSE IF field \notin DictKeys(keyword_args)
          THEN [raised |-> TRUE, items |-> <<>>]
          ELSE str_format_from(template, close + 1, auto, numbering, positional_args,
                               keyword_args, Append(items, Atom(DictGet(keyword_args, field))))

\* The value of the call node: template.format(args)
str_format(call) ==
  str_format_from(template_of(call), 1, 0, "", positional_args_of(call.args),
                  keyword_args_of(call.args), <<>>)

RECURSIVE part_items(_)
part_items(parts) ==
  IF parts = <<>> THEN <<>>
  ELSE LET part == Head(parts)
       IN (IF part.kind = "FormattedStringText"
           THEN [i \in 1..Len(part.value) |-> Ch(part.value[i])]
           ELSE <<Atom(part.expression[1])>>)
          \o part_items(Tail(parts))

\* The value of the code of an interpolated string node: the text is read
\* again as Python reads it; raised stands for a SyntaxError.
fstring_value(node, quotes_ok) ==
  LET read == parse_fstring(fstring_items(node.parts), 1, <<>>, <<>>, quotes_ok)
  IN IF read.ok THEN [raised |-> FALSE, items |-> part_items(read.parts)]
     ELSE [raised |-> TRUE, items |-> <<>>]

\* The rewritten calls all of whose placeholders are empty or named and have
\* an argument, the arguments being plain names.
EmptyAndNamedCalls ==
  {st \in RewrittenCalls :
     /\ PlaceholdersOf(st) # <<>>
     /\ \A j \in 1..Len(CallOf(st).args) : CallOf(st).args[j].value.kind = "Name"
     /\ \A i \in 1..Len(PlaceholdersOf(st)) :
          /\ ~isdigit(PlaceholdersOf(st)[i].group)
          /\ Resolves(st, i)}

\* C11: when every placeholder of the template is empty or named and has an
\* argument, the interpolated string that replaces the call evaluates to what
\* the call evaluates to: the same literal text and the same argument
\* expressions, in template order.
C11_EvaluatesIdentically ==
  \A st \in EmptyAndNamedCalls :
    ~str_format(CallOf(st)).raised =>
      fstring_value(result[1].code.body[st], nested_quotes_ok) = str_format(CallOf(st))

\* The number of calls of a tree that leave_Call qualifies: the node itself,
\* the receiver of a call, its arguments and the expressions of an
\* interpolated string.
RECURSIVE FormatCallsIn(_), FormatCallsInArgs(_, _), FormatCallsInParts(_, _)
FormatCallsIn(node) ==
  (IF is_format_call(node) THEN 1 ELSE 0)
    + (IF node.func_value = <<>> THEN 0 ELSE FormatCallsIn(node.func_value[1]))
    + FormatCallsInArgs(node.args, 1)
    + FormatCallsInParts(node.parts, 1)

FormatCallsInArgs(args, i) ==
  IF i > Len(args) THEN 0
  ELSE FormatCallsIn(args[i].value) + FormatCallsInArgs(args, i + 1)

FormatCallsInParts(parts, i) ==
  IF i > Len(parts) THEN 0
  ELSE (IF parts[i].expression = <<>> THEN 0 ELSE FormatCallsIn(parts[i].expression[1]))
         + FormatCallsInParts(parts, i + 1)

RECURSIVE FormatCallsInBody(_, _)
FormatCallsInBody(body, i) ==
  IF i > Len(body) THEN 0
  ELSE FormatCallsIn(body[i]) + FormatCallsInBody(body, i + 1)

\* The qualifying calls of the text the last apply call was given, as the
\* parser reads it.
QualifyingCalls == FormatCallsInBody(parse_module(source, nested_quotes_ok).body, 1)

Qualifies(node) ==
  /\ node.kind = "Call"
  /\ node.func_kind = "Attribute"
  /\ node.func_attr = "format"
  /\ node.func_value[1].kind = "SimpleString"

\* before is a node of the input and after the node at its place in the
\* output: a qualifying call has become an interpolated string, any other
\* call is the same call (same method, same keywords) whose receiver and
\* arguments are related in the same way, and any other node is unchanged.
\* The arguments of a qualifying call are not looked at.
RECURSIVE RewrittenIffQualifies(_, _)
RewrittenIffQualifies(before, after) ==
  IF Qualifies(before) THEN after.kind = "FormattedString"
  ELSE IF before.kind = "Call"
  THEN /\ after.kind = "Call"
       /\ after.func_kind = before.func_kind
       /\ after.func_attr = before.func_attr
       /\ Len(after.func_value) = Len(before.func_value)
       /\ \A i \in 1..Len(before.func_value) :
             RewrittenIffQualifies(before.func_value[i], after.func_value[i])
       /\ Len(after.args) = Len(before.args)
       /\ \A i \in 1..Len(before.args) :
             /\ after.args[i].keyword = before.args[i].keyword
             /\ RewrittenIffQualifies(before.args[i].value, after.args[i].value)
  ELSE IF before.kind = "FormattedString"
  THEN /\ after.kind = "FormattedString"
       /\ Len(after.parts) = Len(before.parts)
       /\ \A i \in 1..Len(before.parts) :
             IF before.parts[i].expression = <<>> THEN after.parts[i] = before.parts[i]
             ELSE /\ after.parts[i].expression # <<>>
                  /\ RewrittenIffQualifies(before.parts[i].expression[1],
                                           after.parts[i].expression[1])
  ELSE after = before

\* Whether a qualifying call is left somewhere in a tree.
RECURSIVE QualifyingLeft(_)
QualifyingLeft(node) ==
  \/ Qualifies(node)
  \/ \E i \in 1..Len(node.func_value) : QualifyingLeft(node.func_value[i])
  \/ \E i \in 1..Len(node.args) : QualifyingLeft(node.args[i].value)
  \/ \E i \in 1..Len(node.parts) :
        /\ node.parts[i].expression # <<>>
        /\ QualifyingLeft(node.parts[i].expression[1])

\* The statements of the text the last apply call was given, as the parser
\* reads them.
ParsedBody == parse_module(source, nested_quotes_ok).body

RECURSIVE SegmentsFrom(_, _, _)
SegmentsFrom(st, i, last_end) ==
  LET template == template_of(CallOf(st))
      placeholders == PlaceholdersOf(st)
  IN IF i > Len(placeholders)
     THEN IF last_end < Len(template)
          THEN <<SubSeq(template, last_end + 1, Len(template))>>
          ELSE <<>>
     ELSE (IF placeholders[i].start > last_end
           THEN <<SubSeq(template, last_end + 1, placeholders[i].start)>>
           ELSE <<>>)
          \o (IF Resolves(st, i) THEN <<"expression">> ELSE <<>>)
          \o SegmentsFrom(st, i + 1, placeholders[i].end)

\* The segments of the interpolated string that replaced statement st: the
\* text of a text segment, a mark for an expression.
SegmentsOf(st) ==
  LET parts == result[1].code.body[st].parts
  IN [i \in 1..Len(parts) |->
        IF parts[i].expression = <<>> THEN parts[i].value ELSE "expression"]

\* Whether a qualifying call of a tree has a placeholder that str.isdigit
\* accepts and int rejects.
RECURSIVE HasRejectedDigit(_)
HasRejectedDigit(node) ==
  \/ /\ Qualifies(node)
     /\ \E m \in Range(finditer(template_of(node), 0)) :
           isdigit(m.group) /\ int_raises(m.group)
  \/ \E i \in 1..Len(node.func_value) : HasRejectedDigit(node.func_value[i])
  \/ \E i \in 1..Len(node.args) : HasRejectedDigit(node.args[i].value)
  \/ \E i \in 1..Len(node.parts) :
        /\ node.parts[i].expression # <<>>
        /\ HasRejectedDigit(node.parts[i].expression[1])

NestedQualifying ==
  IF result = None \/ caught # None THEN {}
  ELSE {st \in 1..Len(ParsedBody) :
          /\ Qualifies(ParsedBody[st])
          /\ \E i \in 1..Len(ParsedBody[st].args) : Qualifies(ParsedBody[st].args[i].value)}

\* C27: a qualifying call among the arguments of a qualifying call is
\* rewritten as well: the interpolated string that replaces the outer call
\* holds no qualifying call, and the count apply returns is the number of
\* qualifying calls the text has lost.
C27_NestedCallsRewritten ==
  NestedQualifying # {} =>
    /\ \A st \in NestedQualifying : ~QualifyingLeft(result[1].code.body[st])
    /\ result[1].count
         = FormatCallsInBody(ParsedBody, 1) - FormatCallsInBody(result[1].code.body, 1)

(***************************************************************************)
(* apply_fixes and the fix loop of main.  A file is its name, its content  *)
(* (a source text) and whether read_text and write_text succeed on it.     *)
(***************************************************************************)
MaxFixFiles == 2
MaxFixers == 2

endswith(s, suffix) ==
  /\ Len(s) >= Len(suffix)
  /\ SubSeq(s, Len(s) - Len(suffix) + 1, Len(s)) = suffix

AVAILABLE_FIXERS == {"format_to_fstring"}

\* The exception a try block of apply_fixes catches and prints.
Printed(type, requested, available) ==
  [type |-> type, requested |-> requested, available |-> available]

\* get_fixer: raises ValueError naming fixer_name and the known names
get_fixer(fixer_name) ==
  IF fixer_name \notin AVAILABLE_FIXERS
  THEN [raised |-> TRUE, error |-> Printed("ValueError", fixer_name, AVAILABLE_FIXERS)]
  ELSE [raised |-> FALSE, error |-> Printed("", "", {})]

RECURSIVE apply_fixes_loop(_, _, _, _, _, _)

\* Lines 67-69 with the lines of the variant that leaves content as it was.
apply_fixes_take_keep_content(content, fixers, i, fixes_applied, printed, quotes_ok, returned) ==
  IF returned.count > 0
  THEN apply_fixes_loop(content, fixers, i + 1, fixes_applied + returned.count,
                        printed, quotes_ok)
  ELSE apply_fixes_loop(content, fixers, i + 1, fixes_applied, printed, quotes_ok)

\* apply_fixes lines 67-69: what the loop does with the pair apply returned
apply_fixes_take(content, fixers, i, fixes_applied, printed, quotes_ok, returned) ==
  IF returned.count > 0
  THEN apply_fixes_loop(returned.code, fixers, i + 1, fixes_applied + returned.count,
                        printed, quotes_ok)
  ELSE apply_fixes_loop(content, fixers, i + 1, fixes_applied, printed, quotes_ok)

\* apply_fixes lines 60-72: the loop over the fixer names, from name i on.
\* An exception of get_fixer is caught and printed, and the loop goes on.
apply_fixes_loop(content, fixers, i, fixes_applied, printed, quotes_ok) ==
  IF i > Len(fixers)
  THEN [content |-> content, fixes_applied |-> fixes_applied, printed |-> printed]
  ELSE IF get_fixer(fixers[i]).raised
  THEN apply_fixes_loop(content, fixers, i + 1, fixes_applied,
                        Append(printed, get_fixer(fixers[i]).error), quotes_ok)
  ELSE apply_fixes_take(content, fixers, i, fixes_applied, printed, quotes_ok,
                        apply(content, quotes_ok))

\* What an apply_fixes call did: the value returned, the content of the file
\* after it, fixes_applied at line 75, whether write_text was called and
\* whether it failed, what was printed and whether an exception left the call.
Outcome(returned, content, fixes_applied, wrote, write_failed, printed) ==
  [returned |-> returned, content |-> content, fixes_applied |-> fixes_applied,
   wrote |-> wrote, write_failed |-> write_failed, printed |-> printed,
   raised |-> FALSE]

apply_fixes_write_counts_failed(file, done) ==
  IF done.fixes_applied > 0
  THEN IF file.writable
       THEN Outcome(done.fixes_applied, done.content, done.fixes_applied, TRUE, FALSE,
                    done.printed)
       ELSE Outcome(done.fixes_applied, file.content, done.fixes_applied, TRUE, TRUE,
                    Append(done.printed, Printed("OSError", "", {})))
  ELSE Outcome(done.fixes_applied, file.content, done.fixes_applied, FALSE, FALSE,
               done.printed)

\* apply_fixes lines 74-82
apply_fixes_write(file, done) ==
  IF done.fixes_applied > 0
  THEN IF file.writable
       THEN Outcome(done.fixes_applied, done.content, done.fixes_applied, TRUE, FALSE,
                    done.printed)
       ELSE Outcome(0, file.content, done.fixes_applied, TRUE, TRUE,
                    Append(done.printed, Printed("OSError", "", {})))
  ELSE Outcome(done.fixes_applied, file.content, done.fixes_applied, FALSE, FALSE,
               done.printed)

apply_fixes(file, fixers, quotes_ok) ==
  IF ~endswith(file.name, <<".", "p", "y">>)
  THEN Outcome(0, file.content, 0, FALSE, FALSE, <<>>)
  ELSE IF ~file.readable
  THEN Outcome(0, file.content, 0, FALSE, FALSE, <<Printed("OSError", "", {})>>)
  ELSE apply_fixes_write(file, apply_fixes_loop(file.content, fixers, 1, 0, <<>>, quotes_ok))

FixFile(name, content, readable, writable) ==
  [name |-> name, content |-> content, readable |-> readable, writable |-> writable]

\* "{}".format(a), "{}".format('a'.format()), a text with a syntax error and
\* a text without a format call
FixContents ==
  { SourceText(FALSE, <<MethodCall(SimpleString(Quote(DQ, <<"{", "}">>)), "format",
                                   <<Arg(None, NameA)>>)>>),
    SourceText(FALSE, <<MethodCall(SimpleString(Quote(DQ, <<"{", "}">>)), "format",
       <<Arg(None, MethodCall(SimpleString(Quote(SQ, <<"a">>)), "format", <<>>))>>)>>),
    SourceText(TRUE, <<NameA>>),
    SourceText(FALSE, <<NameA>>) }

\* main hands over the paths of rglob("*.py"); the file that is no .py file
\* stands for a direct call of apply_fixes.
FixFilePool ==
  {FixFile(<<"m", ".", "p", "y">>, c, TRUE, w) : c \in FixContents, w \in BOOLEAN}
    \cup {FixFile(<<"m", ".", "p", "y">>, c, FALSE, TRUE) : c \in FixContents}
    \cup {FixFile(<<"m", ".", "t", "x", "t">>, c, TRUE, TRUE) : c \in FixContents}

FixerNames == {"format_to_fstring", "sort_imports"}

FixerLists == SeqsUpTo(FixerNames, MaxFixers) \ {<<>>}

FixesInit ==
  /\ patterns = <<>>
  /\ min_severity = "info"
  /\ selected_tags = None
  /\ line = <<>>
  /\ line_results = None
  /\ match_lists = <<>>
  /\ mutated = {}
  /\ store = <<>>
  /\ ScanIdle
  /\ LoadIdle
  /\ CliIdle
  /\ source = <<>>
  /\ result = None
  /\ changes = 0
  /\ caught = None
  /\ applied = 0
  /\ nested_quotes_ok \in BOOLEAN
  /\ fix_files \in SeqsUpTo(FixFilePool, MaxFixFiles) \ {<<>>}
  /\ fix_patterns \in FixerLists
  /\ fix_i = 1
  /\ total_fixes = 0
  /\ fix_log = <<>>
  /\ RescanIdle
  /\ MergeIdle

\* One turn of the loop of main (cli.py lines 176-180)
ApplyFixes ==
  /\ fix_i <= Len(fix_files)
  /\ \E done \in {apply_fixes(fix_files[fix_i], fix_patterns, nested_quotes_ok)} :
       /\ fix_files' = [fix_files EXCEPT ![fix_i].content = done.content]
       /\ total_fixes' = IF done.returned > 0 THEN total_fixes + done.returned
                         ELSE total_fixes
       /\ fix_log' = Append(fix_log, [before |-> fix_files[fix_i].content, done |-> done])
  /\ fix_i' = fix_i + 1
  /\ UNCHANGED <<analyzerVars, lineVars, store, scanVars, fixVars, loadVars, cliVars,
                 rescanVars, mergeVars, fix_patterns>>

FixesNext == ApplyFixes

FixesSpec == FixesInit /\ [][FixesNext]_vars

\* Whether the call that wrote entry j of the log got as far as its fixers.
ReachedFixers(j) ==
  endswith(fix_files[j].name, <<".", "p", "y">>) /\ fix_files[j].readable

HasUnknownFixer == \E n \in 1..Len(fix_patterns) : fix_patterns[n] \notin AVAILABLE_FIXERS

\* C12: a call of apply_fixes whose list names an unknown fixer does not
\* write the file, and the error of get_fixer, which names the requested and
\* the known identifiers, reaches the caller.
C12_UnknownFixerFailsFast ==
  \A j \in 1..Len(fix_log) :
    (HasUnknownFixer /\ ReachedFixers(j)) =>
      /\ ~fix_log[j].done.wrote
      /\ fix_log[j].done.content = fix_log[j].before
      /\ fix_log[j].done.raised

\* The text after each of the first n fixers of the list and the changes
\* counted so far, every known fixer reading the text the ones before it
\* left.
FixChain(before, fixers, quotes_ok) ==
  LET chain[n \in 0..Len(fixers)] ==
        IF n = 0 THEN [text |-> before, total |-> 0]
        ELSE IF fixers[n] \notin AVAILABLE_FIXERS
                  \/ apply(chain[n - 1].text, quotes_ok).count = 0
             THEN chain[n - 1]
             ELSE [text |-> apply(chain[n - 1].text, quotes_ok).code,
                   total |-> chain[n - 1].total
                               + apply(chain[n - 1].text, quotes_ok).count]
  IN chain[Len(fixers)]

\* What entry j of the log is expected to be: the text to persist and the
\* total change count (0 for a file that is no .py file or cannot be read).
Expected(j) ==
  IF ReachedFixers(j) THEN FixChain(fix_log[j].before, fix_patterns, nested_quotes_ok)
  ELSE [text |-> fix_log[j].before, total |-> 0]

RECURSIVE PersistedFixes(_)
PersistedFixes(log) ==
  IF log = <<>> THEN 0
  ELSE PersistedFixes(SubSeq(log, 1, Len(log) - 1))
         + (IF log[Len(log)].done.wrote /\ ~log[Len(log)].done.write_failed
            THEN log[Len(log)].done.fixes_applied ELSE 0)

\* C14: a call whose write fails returns 0, total_fixes of main counts only
\* the changes of the files that were written, and a file written earlier in
\* the run keeps its rewritten content.
C14_FailedWriteNotCounted ==
  /\ \A j \in 1..Len(fix_log) : fix_log[j].done.write_failed => fix_log[j].done.returned = 0
  /\ total_fixes = PersistedFixes(fix_log)
  /\ \A j \in 1..Len(fix_log) :
       (fix_log[j].done.wrote /\ ~fix_log[j].done.write_failed) =>
         fix_files[j].content = fix_log[j].done.content

\* The first file was rewritten and written, the write of the second failed.
C14_Witness ==
  /\ Len(fix_log) = 2
  /\ fix_log[1].done.wrote /\ ~fix_log[1].done.write_failed
  /\ fix_log[2].done.write_failed
  /\ fix_log[2].done.fixes_applied > 0
  /\ total_fixes = fix_log[1].done.fixes_applied
  /\ fix_files[1].content # fix_log[1].before

(***************************************************************************)
(* PatternLoader.  A rule document is a file that yaml.safe_load reads as  *)
(* a mapping or not at all; the mapping is the sequence of its entries in  *)
(* document order, a regex and the data under it.  The data is a list of   *)
(* ideas, a mapping with optional keys severity, tags and ideas, or        *)
(* something else.                                                         *)
(***************************************************************************)
MaxEntries == 2
MaxDocuments == 2

\* re.compile raises re.error: of the regexes of the model, those with a
\* parenthesis that is not closed.
re_error(regex) == \E i \in 1..Len(regex) : regex[i] = "("

ListData(ideas) ==
  [kind |-> "list", ideas |-> Some(ideas), severity |-> None, tags |-> None]

DictData(severity, tags, ideas) ==
  [kind |-> "dict", ideas |-> ideas, severity |-> severity, tags |-> tags]

OtherData == [kind |-> "str", ideas |-> None, severity |-> None, tags |-> None]

\* dict.get(key, default) on an optional value
get(value, default) == IF value = None THEN default ELSE value[1]

\* The variant of the structured branch that gives every pattern Severity.INFO.
load_entry_severity_ignored(regex, pattern_data) ==
  IF pattern_data.kind = "list"
  THEN IF re_error(regex) THEN [raised |-> TRUE, patterns |-> <<>>]
       ELSE [raised |-> FALSE,
             patterns |-> <<ImprovementPattern(regex, pattern_data.ideas[1], "info", <<>>)>>]
  ELSE IF pattern_data.kind = "dict"
  THEN IF get(pattern_data.severity, "info") \notin Severity
            \/ pattern_data.ideas = None
            \/ re_error(regex)
       THEN [raised |-> TRUE, patterns |-> <<>>]
       ELSE [raised |-> FALSE,
             patterns |-> <<ImprovementPattern(regex, pattern_data.ideas[1], "info",
                                               get(pattern_data.tags, <<>>))>>]
  ELSE [raised |-> FALSE, patterns |-> <<>>]

\* load_from_yaml lines 89-104: what one entry adds to patterns, or that it
\* raises: ValueError of Severity() or of __post_init__, KeyError of
\* pattern_data['ideas'].
load_entry(regex, pattern_data) ==
  IF pattern_data.kind = "list"
  THEN IF re_error(regex) THEN [raised |-> TRUE, patterns |-> <<>>]
       ELSE [raised |-> FALSE,
             patterns |-> <<ImprovementPattern(regex, pattern_data.ideas[1], "info", <<>>)>>]
  ELSE IF pattern_data.kind = "dict"
  THEN IF get(pattern_data.severity, "info") \notin Severity
            \/ pattern_data.ideas = None
            \/ re_error(regex)
       THEN [raised |-> TRUE, patterns |-> <<>>]
       ELSE [raised |-> FALSE,
             patterns |-> <<ImprovementPattern(regex, pattern_data.ideas[1],
                                               get(pattern_data.severity, "info"),
                                               get(pattern_data.tags, <<>>))>>]
  ELSE [raised |-> FALSE, patterns |-> <<>>]

\* The loop of load_from_yaml over data.items(), from entry i on; so_far is
\* the list patterns of the method.
RECURSIVE load_from_yaml_loop(_, _, _)
load_from_yaml_loop(data, i, so_far) ==
  IF i > Len(data) THEN [raised |-> FALSE, patterns |-> so_far]
  ELSE IF load_entry(data[i][1], data[i][2]).raised
  THEN [raised |-> TRUE, patterns |-> <<>>]
  ELSE load_from_yaml_loop(data, i + 1,
                           so_far \o load_entry(data[i][1], data[i][2]).patterns)

\* PatternLoader.load_from_yaml: every exception is caught and [] returned
load_from_yaml(document) ==
  IF ~document.mapping THEN <<>>
  ELSE IF load_from_yaml_loop(document.data, 1, <<>>).raised THEN <<>>
  ELSE load_from_yaml_loop(document.data, 1, <<>>).patterns

\* PatternLoader.load_multiple
RECURSIVE load_multiple(_)
load_multiple(yaml_paths) ==
  IF yaml_paths = <<>> THEN <<>>
  ELSE load_multiple(SubSeq(yaml_paths, 1, Len(yaml_paths) - 1))
         \o load_from_yaml(yaml_paths[Len(yaml_paths)])

Document(mapping, data) == [mapping |-> mapping, data |-> data]

\* Entries: well-formed ones of both forms, one with an invalid regex, one
\* with an unknown severity, one whose data is a string and one without
\* ideas.
EntryPool ==
  { <<<<"d">>, ListData(<<"Add type hints", "Add docstrings">>)>>,
    <<<<"r">>, DictData(Some("warning"), Some(<<"function">>), Some(<<"Validate", "Log">>))>>,
    <<<<"r">>, DictData(None, None, Some(<<"Check the value">>))>>,
    <<<<"(">>, ListData(<<"Close it">>)>>,
    <<<<"d">>, DictData(Some("high"), Some(<<"function">>), Some(<<"Add type hints">>))>>,
    <<<<"r">>, OtherData>>,
    <<<<"d">>, DictData(Some("critical"), None, None)>> }

\* The keys of a mapping are distinct.
Documents ==
  {Document(TRUE, data) : data \in {e \in SeqsUpTo(EntryPool, MaxEntries) :
                                      \A i, j \in 1..Len(e) : i # j => e[i][1] # e[j][1]}}
    \cup {Document(FALSE, <<>>)}

LoadInit ==
  /\ patterns = <<>>
  /\ min_severity = "info"
  /\ selected_tags = None
  /\ line = <<>>
  /\ line_results = None
  /\ match_lists = <<>>
  /\ mutated = {}
  /\ store = <<>>
  /\ ScanIdle
  /\ FixIdle
  /\ FixesIdle
  /\ CliIdle
  /\ documents \in SeqsUpTo(Documents, MaxDocuments)
  /\ loaded = None
  /\ RescanIdle
  /\ MergeIdle

\* patterns = PatternLoader.load_multiple(config.patterns)
LoadMultiple ==
  /\ loaded = None
  /\ loaded' = Some(load_multiple(documents))
  /\ UNCHANGED <<analyzerVars, lineVars, store, scanVars, fixVars, fixesVars, cliVars,
                 rescanVars, mergeVars, documents>>

LoadNext == LoadMultiple

LoadSpec == LoadInit /\ [][LoadNext]_vars

\* An entry that is not well-formed.
Malformed(entry) ==
  \/ re_error(entry[1])
  \/ entry[2].kind \notin {"list", "dict"}
  \/ entry[2].kind = "dict" /\ get(entry[2].severity, "info") \notin Severity

RECURSIVE Concat(_)
Concat(lists) == IF lists = <<>> THEN <<>> ELSE Head(lists) \o Concat(Tail(lists))

\* C15: a document with an entry that has an invalid regex, an unknown
\* severity or data that is neither a list nor a mapping contributes no
\* pattern, and load_multiple returns the patterns of the documents, one
\* document after the other in source order.
C15_MalformedEntryDropsDocument ==
  loaded # None =>
    /\ \A n \in 1..Len(documents) :
         (\E i \in 1..Len(documents[n].data) : Malformed(documents[n].data[i])) =>
           load_from_yaml(documents[n]) = <<>>
    /\ loaded[1] = Concat([n \in 1..Len(documents) |-> load_from_yaml(documents[n])])

\* An entry of one of the two forms that loads.
WellFormed(entry) ==
  /\ ~re_error(entry[1])
  /\ \/ entry[2].kind = "list"
     \/ /\ entry[2].kind = "dict"
        /\ entry[2].ideas # None
        /\ get(entry[2].severity, "info") \in Severity

\* C16: a well-formed document gives one pattern per entry, in document
\* order: a list of ideas becomes a pattern of severity info without tags, a
\* structured entry keeps its severity, its tags and its ideas.
C16_OnePatternPerEntry ==
  loaded # None =>
    \A n \in 1..Len(documents) :
      (documents[n].mapping /\ \A i \in 1..Len(documents[n].data) : WellFormed(documents[n].data[i])) =>
        /\ Len(load_from_yaml(documents[n])) = Len(documents[n].data)
        /\ \A i \in 1..Len(documents[n].data) :
             LET entry == documents[n].data[i]
                 pattern == load_from_yaml(documents[n])[i]
             IN /\ pattern.regex = entry[1]
                /\ pattern.ideas = entry[2].ideas[1]
                /\ entry[2].kind = "list" => pattern.severity = "info" /\ pattern.tags = <<>>
                /\ (entry[2].kind = "dict" /\ entry[2].severity # None) =>
                     pattern.severity = entry[2].severity[1]
                /\ (entry[2].kind = "dict" /\ entry[2].tags # None) =>
                     pattern.tags = entry[2].tags[1]

\* A document with a shorthand entry and then a structured one of severity
\* warning was loaded.
C16_Witness ==
  /\ loaded # None
  /\ Len(documents) = 1
  /\ Len(documents[1].data) = 2
  /\ documents[1].data[1][2].kind = "list"
  /\ documents[1].data[2][2].severity = Some("warning")
  /\ Len(loaded[1]) = 2
  /\ loaded[1][2].severity = "warning"
  /\ loaded[1][2].ideas = <<"Validate", "Log">>

(***************************************************************************)
(* CliSpec: an entry point builds a ProjectAnalyzer and runs analyze().     *)
(* There are two: main of the package (quantum_analyzer/cli.py), which      *)
(* reads an AnalyzerConfig, and main of the script (quantum_analyzer.py).   *)
(* The files are anonymous here: only how many of them are queued, being    *)
(* analyzed and done matters.                                               *)
(***************************************************************************)
MaxThreads == 2
MaxCpus == 2
MaxPoolFiles == 7

Min(a, b) == IF a < b THEN a ELSE b

\* The fields of the AnalyzerConfig dataclass.
AnalyzerConfigFields ==
  {"patterns", "output", "format", "severity", "tags", "parallel", "threads",
   "fix", "fix_patterns"}

\* AnalyzerConfig(): the attributes of a new configuration and their
\* values.  A value is None or Some(v), here and in the namespace of argparse.
AnalyzerConfig ==
  << <<"patterns", Some(<<>>)>>, <<"output", Some("analysis_results.json")>>,
     <<"format", Some("json")>>, <<"severity", Some("info")>>, <<"tags", None>>,
     <<"parallel", Some(TRUE)>>, <<"threads", Some(0)>>, <<"fix", Some(FALSE)>>,
     <<"fix_patterns", Some(<<>>)>> >>

\* AnalyzerConfig.from_dict: the keys of the file that are fields replace the
\* defaults, the others are left out.
RECURSIVE from_dict_loop(_, _, _)
from_dict_loop(config, config_dict, i) ==
  IF i > Len(config_dict) THEN config
  ELSE from_dict_loop(IF config_dict[i][1] \in AnalyzerConfigFields
                      THEN DictSet(config, config_dict[i][1], config_dict[i][2])
                      ELSE config,
                      config_dict, i + 1)

from_dict(config_dict) == from_dict_loop(AnalyzerConfig, config_dict, 1)

\* The destinations of the arguments of the package's command line, in the
\* order of the add_argument calls, and those with action="store_true".
CliArgs ==
  <<"project_path", "config", "patterns", "output", "format", "severity", "tags",
    "sequential", "threads", "fix", "fix_patterns">>

StoreTrue == {"sequential", "fix"}

\* parse_args: the namespace.  An option that is not given is None, except a
\* store_true option, which is False.
parse_args(given) ==
  [i \in 1..Len(CliArgs) |->
     <<CliArgs[i],
       IF CliArgs[i] \in DictKeys(given) THEN Some(DictGet(given, CliArgs[i]))
       ELSE IF CliArgs[i] \in StoreTrue THEN Some(FALSE)
       ELSE None>>]

\* The loop of merge_with_args over vars(args).items(), from item i on.
RECURSIVE merge_with_args_loop(_, _, _)
merge_with_args_loop(config, args_dict, i) ==
  IF i > Len(args_dict) THEN config
  ELSE merge_with_args_loop(IF /\ args_dict[i][1] \in DictKeys(config)
                               /\ args_dict[i][2] # None
                            THEN DictSet(config, args_dict[i][1], args_dict[i][2])
                            ELSE config,
                            args_dict, i + 1)

\* merge_with_args: an argument is copied only to an attribute the config
\* has, and only when its value is not None.
merge_with_args(config, args) == merge_with_args_loop(config, args, 1)

\* The attributes of the config after load_config and merge_with_args.
ConfigAttributes ==
  DictKeys(merge_with_args(AnalyzerConfig, parse_args(<< <<"project_path", "proj">> >>)))

\* The parameters of ProjectAnalyzer.__init__.
ProjectAnalyzerParams ==
  {"project_path", "patterns", "min_severity", "selected_tags", "parallel"}

\* ProjectAnalyzer(**kwargs): a keyword that is no parameter is a TypeError.
ProjectAnalyzer_init(kwargs) ==
  IF kwargs \subseteq ProjectAnalyzerParams
  THEN [raised |-> FALSE, type |-> "ProjectAnalyzer"]
  ELSE [raised |-> TRUE, type |-> "TypeError"]

\* The keywords of the constructor call of the package's main, and of the
\* script's main.
CliKwargs ==
  {"project_path", "patterns", "min_severity", "selected_tags", "parallel", "threads"}
ScriptKwargs ==
  {"project_path", "patterns", "min_severity", "selected_tags", "parallel"}

\* main of the package up to the constructor call: config.project_path is
\* read first, then the analyzer is built; any exception is printed and the
\* function returns 1.
cli_main ==
  IF "project_path" \notin ConfigAttributes
  THEN [raised |-> TRUE, type |-> "AttributeError"]
  ELSE ProjectAnalyzer_init(CliKwargs)

\* ThreadPoolExecutor(): without max_workers the size is min(32, cpus + 4).
ThreadPoolExecutor(cpus) == Min(32, cpus + 4)

\* analyze(): the parallel branch creates the executor and submits every
\* file; the sequential branch analyzes the files in the calling thread.
Analyze ==
  IF parallel
  THEN /\ cli_pc' = "pool"
       /\ max_workers' = Some(ThreadPoolExecutor(cpu_count))
       /\ pool_queued' = pool_files
       /\ UNCHANGED <<pool_running, pool_done, exit_code>>
  ELSE /\ cli_pc' = "sequential"
       /\ UNCHANGED <<max_workers, pool_queued, pool_running, pool_done, exit_code>>

CliInit ==
  /\ entry_point \in {"cli", "script"}
  /\ threads \in (IF entry_point = "cli" THEN 0..MaxThreads ELSE {0})
  /\ parallel \in BOOLEAN
  /\ cpu_count \in 1..MaxCpus
  /\ pool_files \in 0..MaxPoolFiles
  /\ cli_pc = "start"
  /\ max_workers = None
  /\ pool_queued = 0
  /\ pool_running = 0
  /\ pool_done = 0
  /\ exit_code = None
  /\ patterns = <<>>
  /\ min_severity = "info"
  /\ selected_tags = None
  /\ line = <<>>
  /\ line_results = None
  /\ match_lists = <<>>
  /\ mutated = {}
  /\ store = <<>>
  /\ ScanIdle
  /\ FixIdle
  /\ FixesIdle
  /\ LoadIdle
  /\ RescanIdle
  /\ MergeIdle

\* main of the package runs.
CliMain ==
  /\ entry_point = "cli"
  /\ cli_pc = "start"
  /\ IF cli_main.raised
     THEN /\ cli_pc' = "exited"
          /\ exit_code' = Some(1)
          /\ UNCHANGED <<max_workers, pool_queued, pool_running, pool_done>>
     ELSE Analyze
  /\ UNCHANGED <<analyzerVars, lineVars, store, scanVars, fixVars, fixesVars, loadVars,
                 rescanVars, mergeVars, entry_point, threads, parallel, cpu_count, pool_files>>

\* main of the script runs: it builds the analyzer and calls analyze().
ScriptMain ==
  /\ entry_point = "script"
  /\ cli_pc = "start"
  /\ ~ProjectAnalyzer_init(ScriptKwargs).raised
  /\ Analyze
  /\ UNCHANGED <<analyzerVars, lineVars, store, scanVars, fixVars, fixesVars, loadVars,
                 rescanVars, mergeVars, entry_point, threads, parallel, cpu_count, pool_files>>

\* A worker thread of the executor takes a queued file.
PoolStart ==
  /\ cli_pc = "pool"
  /\ pool_queued > 0
  /\ pool_running < max_workers[1]
  /\ pool_queued' = pool_queued - 1
  /\ pool_running' = pool_running + 1
  /\ UNCHANGED <<analyzerVars, lineVars, store, scanVars, fixVars, fixesVars, loadVars,
                 rescanVars, mergeVars, entry_point, threads, parallel, cpu_count, pool_files, cli_pc, max_workers,
                 pool_done, exit_code>>

\* A worker thread returns from analyze_file_worker.
PoolFinish ==
  /\ cli_pc = "pool"
  /\ pool_running > 0
  /\ pool_running' = pool_running - 1
  /\ pool_done' = pool_done + 1
  /\ UNCHANGED <<analyzerVars, lineVars, store, scanVars, fixVars, fixesVars, loadVars,
                 rescanVars, mergeVars, entry_point, threads, parallel, cpu_count, pool_files, cli_pc, max_workers,
                 pool_queued, exit_code>>

\* The sequential branch: the calling thread analyzes one file at a time.
SequentialStart ==
  /\ cli_pc = "sequential"
  /\ pool_running = 0
  /\ pool_done < pool_files
  /\ pool_running' = 1
  /\ UNCHANGED <<analyzerVars, lineVars, store, scanVars, fixVars, fixesVars, loadVars,
                 rescanVars, mergeVars, entry_point, threads, parallel, cpu_count, pool_files, cli_pc, max_workers,
                 pool_queued, pool_done, exit_code>>

SequentialFinish ==
  /\ cli_pc = "sequential"
  /\ pool_running = 1
  /\ pool_running' = 0
  /\ pool_done' = pool_done + 1
  /\ UNCHANGED <<analyzerVars, lineVars, store, scanVars, fixVars, fixesVars, loadVars,
                 rescanVars, mergeVars, entry_point, threads, parallel, cpu_count, pool_files, cli_pc, max_workers,
                 pool_queued, exit_code>>

\* Every file is analyzed: analyze() returns and the entry point ends.
AnalyzeReturn ==
  /\ cli_pc \in {"pool", "sequential"}
  /\ pool_done = pool_files
  /\ cli_pc' = "exited"
  /\ exit_code' = Some(0)
  /\ UNCHANGED <<analyzerVars, lineVars, store, scanVars, fixVars, fixesVars, loadVars,
                 rescanVars, mergeVars, entry_point, threads, parallel, cpu_count, pool_files, max_workers,
                 pool_queued, pool_running, pool_done>>

CliNext ==
  \/ CliMain
  \/ ScriptMain
  \/ PoolStart
  \/ PoolFinish
  \/ SequentialStart
  \/ SequentialFinish
  \/ AnalyzeReturn

CliSpec == CliInit /\ [][CliNext]_vars

\* The concurrency the configuration asks for: 0 means the host's CPU count.
Concurrency == IF threads = 0 THEN cpu_count ELSE threads

\* C20: the scan runs on a pool whose size is the configured concurrency: no
\* more than that many files are being analyzed at once, the executor has
\* that size, and a parallel run of the package's command line, which passes
\* config.threads, gets such an executor.
C20_PoolSizeIsConcurrency ==
  /\ pool_running <= Concurrency
  /\ max_workers # None => max_workers[1] = Concurrency
  /\ (entry_point = "cli" /\ parallel /\ cli_pc = "exited") => max_workers # None

(***************************************************************************)
(* RescanSpec: one ProjectAnalyzer is constructed and analyze() is called   *)
(* on it again and again, the files of the project changing between the     *)
(* calls.  seq_results is the results dictionary of its AnalysisResults,     *)
(* which __init__ creates.                                                  *)
(***************************************************************************)
MaxScans == 2

\* The loop of analyze() over python_files, from file i on.  Both branches
\* hand the file results to self.results.add_file_results in list order.
RECURSIVE analyze_loop(_, _, _, _, _, _)
analyze_loop(results, pats, min_sev, sel_tags, python_files, i) ==
  IF i > Len(python_files) THEN results
  ELSE LET worked == analyze_file_worker(pats, min_sev, sel_tags, python_files[i])
       IN analyze_loop(add_file_results(results, str(worked.relative_path),
                                        worked.file_results),
                       pats, min_sev, sel_tags, python_files, i + 1)

\* ProjectAnalyzer.analyze: results is self.results.results when the call
\* begins; the value is what it is when the call returns.
analyze(results, pats, min_sev, sel_tags, python_files) ==
  analyze_loop(results, pats, min_sev, sel_tags, python_files, 1)

RescanInit ==
  /\ patterns \in ScanPatternLists
  /\ min_severity \in Severity
  /\ \E arg \in ScanTagArgs : selected_tags = CodeAnalyzerSelectedTags(arg)
  /\ line = <<>>
  /\ line_results = None
  /\ match_lists = <<>>
  /\ mutated = {}
  /\ store = <<>>
  /\ ScanIdle
  /\ FixIdle
  /\ ToolIdle

\* analyzer.analyze() on the project as it is now: python_files is what
\* get_python_files finds.
AnalyzeProject(python_files) ==
  /\ scans < MaxScans
  /\ files' = python_files
  /\ seq_results' = analyze(seq_results, patterns, min_severity, selected_tags, python_files)
  /\ scans' = scans + 1
  /\ UNCHANGED <<analyzerVars, lineVars, store, pc, seq_i, par_status, par_out, par_next,
                 par_results, par_finished, par_writers, fixVars, fixesVars, loadVars,
                 cliVars, mergeVars>>

RescanNext == \E python_files \in FileSets : AnalyzeProject(python_files)

RescanSpec == RescanInit /\ [][RescanNext]_vars

\* The matches of a results dictionary: path, line number and entry.
MatchesOf(results) ==
  UNION {{<<results[i][1], results[i][2][j][1], results[i][2][j][2]>> :
            j \in 1..Len(results[i][2])} : i \in 1..Len(results)}

\* C26: after any number of analyze() calls the store holds the matches of
\* the last scan and no other: what a scan of the present files leaves in an
\* empty store.
C26_OnlyLatestScan ==
  scans > 0 =>
    /\ MatchesOf(seq_results)
         = MatchesOf(analyze(<<>>, patterns, min_severity, selected_tags, files))
    /\ DictKeys(seq_results)
         = DictKeys(analyze(<<>>, patterns, min_severity, selected_tags, files))

(***************************************************************************)
(* MergeSpec: main of the package loads the configuration file and merges   *)
(* the command line into it.                                                *)
(***************************************************************************)
\* What a configuration file can hold, and what the options of a command
\* line can be given as.
FileEntries ==
  << <<"severity", Some("critical")>>, <<"tags", Some(<<"import">>)>>,
     <<"parallel", Some(FALSE)>>, <<"threads", Some(3)>>, <<"fix", Some(TRUE)>>,
     <<"jobs", Some(4)>> >>

OptionValues ==
  << <<"project_path", "proj">>, <<"severity", "warning">>, <<"tags", <<"return">>>>,
     <<"sequential", TRUE>>, <<"threads", 2>>, <<"fix", TRUE>>,
     <<"fix_patterns", <<"format_to_fstring">>>> >>

Chosen(entries, keys) == SelectSeq(entries, LAMBDA e : e[1] \in keys)

\* The configurations load_config returns and the command lines; the project
\* path is always given.
FileConfigs == {from_dict(Chosen(FileEntries, keys)) : keys \in SUBSET DictKeys(FileEntries)}

CommandLines ==
  {Chosen(OptionValues, keys \cup {"project_path"}) : keys \in SUBSET DictKeys(OptionValues)}

MergeInit ==
  /\ command_line \in CommandLines
  /\ file_config \in FileConfigs
  /\ merged_config = None
  /\ patterns = <<>>
  /\ min_severity = "info"
  /\ selected_tags = None
  /\ line = <<>>
  /\ line_results = None
  /\ match_lists = <<>>
  /\ mutated = {}
  /\ store = <<>>
  /\ ScanIdle
  /\ FixIdle
  /\ FixesIdle
  /\ LoadIdle
  /\ CliIdle
  /\ RescanIdle

\* config = merge_with_args(config, args)
Merge ==
  /\ merged_config = None
  /\ merged_config' = Some(merge_with_args(file_config, parse_args(command_line)))
  /\ UNCHANGED <<analyzerVars, lineVars, store, scanVars, fixVars, fixesVars, loadVars,
                 cliVars, rescanVars, command_line, file_config>>

MergeNext == Merge

MergeSpec == MergeInit /\ [][MergeNext]_vars

\* C28: the merge leaves every value of the configuration whose option is
\* not on the command line as load_config returned it, the boolean fix
\* included.
C28_AbsentOptionKeepsValue ==
  merged_config # None =>
    \A name \in DictKeys(file_config) :
      name \notin DictKeys(command_line) =>
        DictGet(merged_config[1], name) = DictGet(file_config, name)

====
